---- MODULE Spec2Model ----
(***************************************************************************)
(* A model of the zeus dependency-injection container: the provider table  *)
(* and instance cache of container.go, its recursive resolver, Run's       *)
(* start / entry / stop protocol over hooks.LifecycleHooks, and the        *)
(* errs.ErrorSet that carries Run's result.                                *)
(***************************************************************************)
EXTENDS Integers, Sequences, FiniteSets, TLC

\* Bounds of the model.
MaxHooks == 2        \* longest OnStart / OnStop list a container may build
MaxBatch == 1        \* most factories passed to one Provide call
MaxErrors == 3       \* most errors added to an ErrorSet a caller builds itself
MaxProvide == 3      \* most factories passed to one Provide call of SpecProvide

Containers == {"a", "b"}
Threads == {1, 2}

(***************************************************************************)
(* Types (reflect.Type).  Pointer types are unnamed: reflect's Name() of   *)
(* *ServiceA is the empty string.  *MyError is a pointer type with an      *)
(* Error() string method.                                                  *)
(***************************************************************************)
HooksT == "Hooks"
Types == {"int", "*ServiceA", "*ServiceB", HooksT, "T1", "T2", "T3", "T4", "T5", "T6"}
UnnamedTypes == {"*ServiceA", "*ServiceB", "*MyError"}

\* reflect.Type.Name(): the type's name within its package, "" when unnamed.
Name(t) == IF t \in UnnamedTypes THEN "" ELSE t

\* Mutant of ImplementsHooks: no parameter is taken for a Hooks parameter.
ImplementsHooksNever(t) == FALSE

\* argType.Implements(reflect.TypeOf((*Hooks)(nil)).Elem())
ImplementsHooks(t) == t = HooksT

\* factoryType.Out(1).Implements(errorType)
ImplementsError(t) == t \in {"error", "*MyError"}

(***************************************************************************)
(* Values passed to Provide and Run.  A function value carries its code    *)
(* pointer, the variables it has captured (env, 0 for a function that      *)
(* captures nothing), its parameter types, its result types and, for what  *)
(* its body does with a Hooks argument, how many OnStart / OnStop          *)
(* callables it registers on it.                                           *)
(***************************************************************************)
Fn(ptr, ins, outs, starts, stops) ==
    [kind |-> "func", ptr |-> ptr, env |-> 0, ins |-> ins, outs |-> outs,
     starts |-> starts, stops |-> stops]

NotAFunction == [kind |-> "string", ptr |-> "none", env |-> 0, ins |-> <<>>,
                 outs |-> <<>>, starts |-> 0, stops |-> 0]

NoFn == [kind |-> "nil", ptr |-> "none", env |-> 0, ins |-> <<>>, outs |-> <<>>,
         starts |-> 0, stops |-> 0]

\* The function value a function literal yields when it captures env.
Closure(f, env) == [f EXCEPT !.env = env]

\* reflect.Value.Pointer() of a function value: its code pointer, the same
\* for every closure of one function literal.
Pointer(f) == f.ptr

ValidFactories ==
    { Fn("newInt", <<>>, <<"int">>, 0, 0),
      Fn("newIntHooks", <<HooksT>>, <<"int", "error">>, 1, 1),
      Fn("intFromA", <<"*ServiceA">>, <<"int">>, 0, 0),
      Fn("newA", <<"int">>, <<"*ServiceA">>, 0, 0),
      Fn("aFromB", <<"*ServiceB">>, <<"*ServiceA">>, 0, 0),
      Fn("newB", <<"int", HooksT>>, <<"*ServiceB">>, 1, 1),
      Fn("bFromA", <<"*ServiceA", "int">>, <<"*ServiceB", "error">>, 0, 0),
      Fn("newHooks", <<HooksT>>, <<HooksT, "*MyError">>, 0, 0) }

InvalidFactories ==
    { NotAFunction,
      Fn("noReturn", <<>>, <<>>, 0, 0),
      Fn("threeReturns", <<>>, <<"int", "string", "error">>, 0, 0),
      Fn("badSecond", <<>>, <<"int", "string">>, 0, 0) }

Factories == ValidFactories \cup InvalidFactories

SeqsUpTo(S, n) == UNION { [1..k -> S] : k \in 0..n }

\* The parameter lists of the entry functions passed to Run.
EntryParams ==
    { <<>>, <<"int">>, <<"*ServiceA">>, <<"*ServiceB">>, <<HooksT>>,
      <<"*ServiceA", "*ServiceB">>, <<"*ServiceB", "int">>,
      <<"int", "*ServiceA">> }

EntryFns ==
    { Fn("main", ins, outs, 0, 0) :
        ins \in EntryParams, outs \in { <<>>, <<"error">> } }
    \cup { Fn("main", ins, outs, 0, 0) :
        ins \in { <<>>, <<"int">> },
        outs \in { <<"int">>, <<"int", "string">>, <<"*MyError">> } }
    \cup { NotAFunction }

(***************************************************************************)
(* Errors (errs/errs.go) and values.                                       *)
(***************************************************************************)
Nil == [kind |-> "nil"]

NotAFunctionError == [kind |-> "NotAFunctionError"]
InvalidFactoryReturnError(n) == [kind |-> "InvalidFactoryReturnError", NumReturns |-> n]
UnexpectedReturnTypeError(name) == [kind |-> "UnexpectedReturnTypeError", TypeName |-> name]
FactoryAlreadyProvidedError(name) == [kind |-> "FactoryAlreadyProvidedError", TypeName |-> name]
DependencyResolutionError(name) == [kind |-> "DependencyResolutionError", TypeName |-> name]
CyclicDependencyError(name) == [kind |-> "CyclicDependencyError", TypeName |-> name]

\* Errors returned by user code: a factory, a hook callable, the entry function.
FactoryError(f) == [kind |-> "FactoryError", by |-> f.ptr]
HookError(h) == [kind |-> "HookError", hook |-> h]
EntryError == [kind |-> "EntryError"]

\* errors.New(msg)
ErrorsNew(msg) == [kind |-> "errorString", msg |-> msg]

\* err.Error() of an error that is not an ErrorSet.
Message(err) == IF err.kind = "errorString" THEN err.msg ELSE err.kind

\* ErrorSet (errs/errs.go); es is its errors slice.
ErrorSetAdd(es, err) == Append(es, err)
ErrorSetIsEmpty(es) == Len(es) = 0

\* Mutant of ErrorSetResult: a set of one error is returned as a set.
ErrorSetResultComposite(es) ==
    IF Len(es) >= 1 THEN [kind |-> "ErrorSet", errors |-> es] ELSE Nil

ErrorSetResult(es) ==
    IF Len(es) = 1 THEN es[1]
    ELSE IF Len(es) > 1 THEN [kind |-> "ErrorSet", errors |-> es]
    ELSE Nil

\* slices.Reverse(s)
Reverse(s) == [k \in 1..Len(s) |-> s[Len(s) + 1 - k]]

\* ErrorSet.Errors(): the slice is reversed where it is, and returned.
ErrorSetErrors(es) == Reverse(es)

\* strings.Join(elems, sep)
RECURSIVE Join(_, _)
Join(elems, sep) ==
    IF Len(elems) = 0 THEN ""
    ELSE IF Len(elems) = 1 THEN elems[1]
    ELSE elems[1] \o sep \o Join(Tail(elems), sep)

\* ErrorSet.Error(): the messages of what Errors() returns, joined.
ErrorSetError(es) ==
    LET errors == ErrorSetErrors(es)
    IN  Join([k \in 1..Len(errors) |-> Message(errors[k])], "; ")

\* The *LifecycleHooks that New() stores in container c.
HooksOf(c) == [t |-> HooksT, by |-> "New", c |-> c, n |-> 0, args |-> <<>>]

\* One invocation of user code: by Run's phase ev, of the function at code
\* pointer by (for a hook: registered with on, k-th of its list), and whether
\* it returned without an error.
Event(ev, by, on, k, ok) == [ev |-> ev, by |-> by, on |-> on, k |-> k, ok |-> ok]

\* A callable registered by the body of factory f.
Hook(f, on) == [by |-> f.ptr, on |-> on]

\* Mutant of Contains: only the innermost enclosing call is compared.
ContainsLast(stack, t) == Len(stack) > 0 /\ stack[Len(stack)] = t

\* make([]reflect.Value, n): n zero Values.
Make(n) == [k \in 1..n |-> Nil]

\* Mutant of SetArg: every value goes to the first position.
SetArgFirst(deps, i, val) == [deps EXCEPT ![1] = val]

\* dependencies[i] = argValue
SetArg(deps, i, val) == [deps EXCEPT ![i] = val]

\* Mutant of Contains: the stack is never looked at.
ContainsNever(stack, t) == FALSE

\* Mutant of Contains: Types are compared by Name().
ContainsByName(stack, t) == \E k \in 1..Len(stack) : Name(stack[k]) = Name(t)

\* slices.Contains(stack, t)
Contains(stack, t) == \E k \in 1..Len(stack) : stack[k] = t

VARIABLES
    providers,   \* providers[c]: the provider table, a function Type -> factory
    instances,   \* instances[c]: the instance cache, a function Type -> value
    onStart,     \* onStart[c]: the OnStart list of c.hooks
    onStop,      \* onStop[c]: the OnStop list of c.hooks
    run,         \* run[th]: the locals of the call thread th is in, or (pc "es")
                 \* the ErrorSet it has made: its errors slice, in the errors it
                 \* added, op the method it called last and result what that returned
    frames,      \* frames[th]: the resolve calls of thread th, innermost last
    trace,       \* trace[th]: the user code invoked by th's current Run, in order
    okCalls,     \* okCalls[c][t]: factory invocations for t that returned a value
    raised,      \* raised[th]: the resolve call of th's current Run that failed
                 \* first: its error, Type and stack, and the length of the trace
    locks        \* locks[c]: of c.mu the thread inside Lock (w, 0 for none) and
                 \* the threads inside RLock (r); of c.hooks.mu the thread that
                 \* holds it (h, 0 for none)

vars == <<providers, instances, onStart, onStop, run, frames, trace, okCalls, raised,
          locks>>

EmptyMap == [t \in {} |-> Nil]
Put(m, k, v) == [x \in DOMAIN m \cup {k} |-> IF x = k THEN v ELSE m[x]]

NoRaise == [err |-> Nil, t |-> "", stack |-> <<>>, n |-> 0]

IdleRun == [pc |-> "idle", op |-> "", c |-> "a", other |-> "a", fn |-> NoFn,
            in |-> <<>>, i |-> 0,
            deps |-> <<>>, errors |-> <<>>, hooks |-> <<>>, h |-> 0,
            result |-> Nil]

\* New() for every container, every thread outside any call.
Init ==
    /\ providers = [c \in Containers |-> EmptyMap]
    /\ instances = [c \in Containers |-> EmptyMap]
    /\ onStart = [c \in Containers |-> <<>>]
    /\ onStop = [c \in Containers |-> <<>>]
    /\ run = [th \in Threads |-> IdleRun]
    /\ frames = [th \in Threads |-> <<>>]
    /\ trace = [th \in Threads |-> <<>>]
    /\ okCalls = [c \in Containers |-> [t \in Types |-> 0]]
    /\ raised = [th \in Threads |-> NoRaise]
    /\ locks = [c \in Containers |-> [w |-> 0, r |-> {}, h |-> 0]]

\* sync.RWMutex: Lock returns when no thread is inside Lock or RLock, RLock
\* when no thread is inside Lock.  sync.Mutex: Lock returns when it is free.
CanLock(c) == locks[c].w = 0 /\ locks[c].r = {}
CanRLock(c) == locks[c].w = 0
CanLockHooks(c) == locks[c].h = 0

Top(th) == frames[th][Len(frames[th])]
SetTop(th, f) == [frames EXCEPT ![th] = [@ EXCEPT ![Len(@)] = f]]
Pop(s) == SubSeq(s, 1, Len(s) - 1)

HasInstance(c, t) == t \in DOMAIN instances[c]
HasProvider(c, t) == t \in DOMAIN providers[c]

(***************************************************************************)
(* Container.Provide                                                       *)
(***************************************************************************)
\* The checks Provide makes on one factory before the duplicate check.
ValidateFactory(factory) ==
    IF factory.kind # "func" THEN NotAFunctionError
    ELSE IF Len(factory.outs) < 1 \/ Len(factory.outs) > 2
         THEN InvalidFactoryReturnError(Len(factory.outs))
    ELSE IF Len(factory.outs) = 2 /\ ~ImplementsError(factory.outs[2])
         THEN UnexpectedReturnTypeError(Name(factory.outs[2]))
    ELSE Nil

\* Mutant of ProvideOne: no duplicate check, a later factory replaces the entry.
ProvideOneOverwrite(table, factory) ==
    IF ValidateFactory(factory) # Nil
    THEN [table |-> table, err |-> ValidateFactory(factory)]
    ELSE [table |-> Put(table, factory.outs[1], factory), err |-> Nil]

\* Mutant of ProvideOne: the duplicate check comes first.
ProvideOneDuplicateFirst(table, factory) ==
    IF factory.kind = "func" /\ Len(factory.outs) >= 1
          /\ factory.outs[1] \in DOMAIN table
    THEN [table |-> table, err |-> FactoryAlreadyProvidedError(Name(factory.outs[1]))]
    ELSE IF ValidateFactory(factory) # Nil
    THEN [table |-> table, err |-> ValidateFactory(factory)]
    ELSE [table |-> Put(table, factory.outs[1], factory), err |-> Nil]

\* One turn of Provide's loop on table: the table afterwards and the error.
ProvideOne(table, factory) ==
    LET invalid == ValidateFactory(factory)
        serviceType == factory.outs[1]
    IN  IF invalid # Nil THEN [table |-> table, err |-> invalid]
        ELSE IF serviceType \in DOMAIN table
             THEN [table |-> table,
                   err |-> FactoryAlreadyProvidedError(Name(serviceType))]
        ELSE [table |-> Put(table, serviceType, factory), err |-> Nil]

\* Mutant of ProvideFrom: an error undoes the insertions of the same call.
RECURSIVE ProvideFromRollback(_, _, _)
ProvideFromRollback(table, factories, k) ==
    IF k > Len(factories) THEN [table |-> table, err |-> Nil]
    ELSE LET one == ProvideOne(table, factories[k])
             rest == ProvideFromRollback(one.table, factories, k + 1)
         IN  IF one.err # Nil THEN one
             ELSE IF rest.err # Nil THEN [table |-> table, err |-> rest.err]
             ELSE rest

\* Provide's loop over factories[k..]: it returns at the first error.
RECURSIVE ProvideFrom(_, _, _)
ProvideFrom(table, factories, k) ==
    IF k > Len(factories) THEN [table |-> table, err |-> Nil]
    ELSE LET one == ProvideOne(table, factories[k])
         IN  IF one.err # Nil THEN one
             ELSE ProvideFrom(one.table, factories, k + 1)

Provide(th, c, factories) ==
    /\ run[th].pc = "idle"
    /\ CanLock(c)
    /\ LET r == ProvideFrom(providers[c], factories, 1)
       IN  /\ providers' = [providers EXCEPT ![c] = r.table]
           /\ run' = [run EXCEPT ![th] = [IdleRun EXCEPT !.pc = "provided",
                                          !.c = c, !.in = factories,
                                          !.result = r.err]]
    /\ UNCHANGED <<locks, instances, onStart, onStop, frames, trace, okCalls, raised>>

(***************************************************************************)
(* Container.resolve, one frame per call                                   *)
(***************************************************************************)
\* The stack parameter is a slice: stack is what it shows, arr the array
\* behind it (0 for nil) and cap its capacity.
Frame(t, stack) ==
    [t |-> t, stack |-> stack, arr |-> 0, cap |-> 0, st |-> "enter",
     provider |-> NoFn, i |-> 0, deps |-> <<>>, val |-> Nil, err |-> Nil]

\* Mutant of ResolveLookup: the instance cache is not consulted.
ResolveLookupNoCache(c, t, stack) ==
    IF Contains(stack, t)
    THEN [st |-> "ret", val |-> Nil, err |-> CyclicDependencyError(Name(t)),
          provider |-> NoFn]
    ELSE IF ~HasProvider(c, t)
    THEN [st |-> "ret", val |-> Nil, err |-> DependencyResolutionError(Name(t)),
          provider |-> NoFn]
    ELSE [st |-> "args", val |-> Nil, err |-> Nil, provider |-> providers[c][t]]

\* The head of resolve: the cycle check, then the cache and the table read
\* under the read lock.
ResolveLookup(c, t, stack) ==
    IF Contains(stack, t)
    THEN [st |-> "ret", val |-> Nil, err |-> CyclicDependencyError(Name(t)),
          provider |-> NoFn]
    ELSE IF HasInstance(c, t)
    THEN [st |-> "ret", val |-> instances[c][t], err |-> Nil, provider |-> NoFn]
    ELSE IF ~HasProvider(c, t)
    THEN [st |-> "ret", val |-> Nil, err |-> DependencyResolutionError(Name(t)),
          provider |-> NoFn]
    ELSE [st |-> "args", val |-> Nil, err |-> Nil, provider |-> providers[c][t]]

\* The call goes where the head of resolve sends it.
ResolveHead(th) ==
    /\ LET r == ResolveLookup(run[th].c, Top(th).t, Top(th).stack)
       IN  /\ frames' = SetTop(th, [Top(th) EXCEPT !.st = r.st, !.val = r.val,
                                    !.err = r.err, !.provider = r.provider,
                                    !.deps = Make(Len(r.provider.ins)),
                                    !.i = 1])
           /\ raised' = IF r.err = Nil THEN raised
                        ELSE [raised EXCEPT ![th] =
                                [err |-> r.err, t |-> Top(th).t,
                                 stack |-> Top(th).stack, n |-> Len(trace[th])]]
    /\ UNCHANGED <<providers, instances, onStart, onStop, run, trace, okCalls>>

ResolveEnter(th) ==
    /\ frames[th] # <<>>
    /\ Top(th).st = "enter"
    /\ Contains(Top(th).stack, Top(th).t) \/ CanRLock(run[th].c)
    /\ ResolveHead(th)
    /\ UNCHANGED locks

\* What resolve passes for a parameter that implements Hooks.
InjectedHooks(c) == HooksOf(c)

\* The loop body for a parameter that implements Hooks: c.hooks, no lookup.
ResolveInject(th) ==
    /\ frames[th] # <<>>
    /\ Top(th).st = "args"
    /\ Top(th).i <= Len(Top(th).provider.ins)
    /\ ImplementsHooks(Top(th).provider.ins[Top(th).i])
    /\ frames' = SetTop(th, [Top(th) EXCEPT
                                !.deps = SetArg(@, Top(th).i, InjectedHooks(run[th].c)),
                                !.i = @ + 1])
    /\ UNCHANGED <<locks, providers, instances, onStart, onStop, run, trace, okCalls, raised>>

\* The stack resolve hands to the call for one of t's parameters.
ChildStack(stack, t) == Append(stack, t)

\* append(stack, t) has room in the array of the call's stack and writes t
\* there; otherwise it allocates.
AppendsInPlace(fr) == Len(fr.stack) < fr.cap

\* runtime.growslice for elements of 16 bytes: the capacity of the array
\* allocated for n elements when the old one has capacity cap.
Grow(cap, n) == IF n > 2 * cap THEN n ELSE 2 * cap

\* An array that no call of the goroutine holds.
NewArray(fs) ==
    LET ids == { fs[k].arr : k \in 1..Len(fs) } \cup {0}
    IN  1 + CHOOSE m \in ids : \A x \in ids : x <= m

\* The calls fs after t is written at index idx of array arr: every slice of
\* that array that reaches idx shows it.
WriteThrough(fs, arr, idx, t) ==
    [k \in 1..Len(fs) |->
        IF fs[k].arr = arr /\ Len(fs[k].stack) >= idx
        THEN [fs[k] EXCEPT !.stack[idx] = t]
        ELSE fs[k]]

\* The loop body for any other parameter: the recursive call, with
\* append(stack, t).
ResolveRecurse(th) ==
    /\ frames[th] # <<>>
    /\ Top(th).st = "args"
    /\ Top(th).i <= Len(Top(th).provider.ins)
    /\ ~ImplementsHooks(Top(th).provider.ins[Top(th).i])
    /\ LET fr == Top(th)
           child == Frame(fr.provider.ins[fr.i], ChildStack(fr.stack, fr.t))
       IN  frames' = [frames EXCEPT ![th] =
                        IF AppendsInPlace(fr)
                        THEN Append(WriteThrough(@, fr.arr, Len(fr.stack) + 1, fr.t),
                                    [child EXCEPT !.arr = fr.arr, !.cap = fr.cap])
                        ELSE Append(@, [child EXCEPT
                                          !.arr = NewArray(frames[th]),
                                          !.cap = Grow(fr.cap, Len(fr.stack) + 1)])]
    /\ UNCHANGED <<locks, providers, instances, onStart, onStop, run, trace, okCalls, raised>>

\* Mutant of OnStop: the callable goes to the front of the list.
OnStopPrepend(list, fn) == <<fn>> \o list

\* Mutant of OnStart: the callable replaces the list.
OnStartReplace(list, fn) == <<fn>>

\* LifecycleHooks.OnStart / OnStop: append to the list.
OnStart(list, fn) == Append(list, fn)
OnStop(list, fn) == Append(list, fn)

\* The Hooks object the body of factory f registers its callables on: its
\* first Hooks argument.
HooksArg(f, deps) ==
    LET ks == { k \in 1..Len(f.ins) : ImplementsHooks(f.ins[k]) }
    IN  IF ks = {} THEN Nil
        ELSE deps[CHOOSE k \in ks : \A j \in ks : k <= j]

\* The list of container c2 after the body of f, called with deps, has run.
Registered(list, f, deps, c2, on, n) ==
    IF n > 0 /\ HooksArg(f, deps) = HooksOf(c2)
    THEN (IF on = "start" THEN OnStart(list, Hook(f, on))
          ELSE OnStop(list, Hook(f, on)))
    ELSE list

\* The value a factory returns: a fresh object built from its arguments.
NewValue(c, t, f, deps) ==
    [t |-> t, by |-> f.ptr, c |-> c, n |-> okCalls[c][t] + 1, args |-> deps]

\* Mutant of FailedCallState: the first result is stored before the error is
\* looked at.
FailedCallStateStore == "store"

\* Where resolve goes when the factory returned an error: it returns.
FailedCallState == "ret"

\* The results of provider.Call that resolve treats as a failure.
CallFailed(f, ok) == Len(f.outs) = 2 /\ ~ok

\* The containers on whose Hooks the body of f, called with deps, calls
\* OnStart or OnStop.
RegistersOn(f, deps) ==
    { c2 \in Containers : f.starts + f.stops > 0 /\ HooksArg(f, deps) = HooksOf(c2) }

\* provider.Call(dependencies) returns: a value or, when the factory has a
\* second result, possibly an error; resolve looks at the error first.
CallResult(th) ==
    /\ LET c == run[th].c
           t == Top(th).t
           f == Top(th).provider
           deps == Top(th).deps
       IN  /\ \E ok \in (IF Len(f.outs) = 2 THEN BOOLEAN ELSE {TRUE}) :
                 /\ trace' = [trace EXCEPT ![th] =
                                Append(@, Event("factory", f.ptr, "", 0, ok))]
                 /\ IF CallFailed(f, ok)
                    THEN /\ frames' = SetTop(th, [Top(th) EXCEPT
                                                    !.st = FailedCallState,
                                                    !.err = FactoryError(f)])
                         /\ raised' = [raised EXCEPT ![th] =
                                         [err |-> FactoryError(f), t |-> t,
                                          stack |-> Top(th).stack,
                                          n |-> Len(trace[th]) + 1]]
                         /\ UNCHANGED okCalls
                    ELSE /\ frames' = SetTop(th, [Top(th) EXCEPT !.st = "store",
                                                    !.val = NewValue(c, t, f, deps)])
                         /\ okCalls' = [okCalls EXCEPT ![c][t] = @ + 1]
                         /\ UNCHANGED raised

\* provider.Call(dependencies): the factory body runs, registers its hooks and
\* returns.
CallFactory(th) ==
    /\ LET f == Top(th).provider
           deps == Top(th).deps
       IN  /\ \A c2 \in Containers :
                 /\ Len(Registered(onStart[c2], f, deps, c2, "start", f.starts)) <= MaxHooks
                 /\ Len(Registered(onStop[c2], f, deps, c2, "stop", f.stops)) <= MaxHooks
           /\ onStart' = [c2 \in Containers |->
                            Registered(onStart[c2], f, deps, c2, "start", f.starts)]
           /\ onStop' = [c2 \in Containers |->
                            Registered(onStop[c2], f, deps, c2, "stop", f.stops)]
    /\ CallResult(th)
    /\ UNCHANGED <<providers, instances, run>>

\* The loop has ended: results := provider.Call(dependencies), every OnStart
\* and OnStop call of the body, each under c.hooks.mu, included.
ResolveCall(th) ==
    /\ frames[th] # <<>>
    /\ Top(th).st = "args"
    /\ Top(th).i > Len(Top(th).provider.ins)
    /\ \A c2 \in RegistersOn(Top(th).provider, Top(th).deps) : CanLockHooks(c2)
    /\ CallFactory(th)
    /\ UNCHANGED locks

\* Mutant of Store: a Type that has an instance keeps it.
StoreFirstWins(cache, t, val) == IF t \in DOMAIN cache THEN cache ELSE Put(cache, t, val)

\* Mutant of Store: the write of line 85 is left out.
StoreNothing(cache, t, val) == cache

\* The instance cache after resolve has stored val for t.
Store(cache, t, val) == Put(cache, t, val)

\* c.instances[t] = results[0]
ResolveStore(th) ==
    /\ frames[th] # <<>>
    /\ Top(th).st = "store"
    /\ instances' = [instances EXCEPT ![run[th].c] = Store(@, Top(th).t, Top(th).val)]
    /\ frames' = SetTop(th, [Top(th) EXCEPT !.st = "ret"])
    /\ UNCHANGED <<locks, providers, onStart, onStop, run, trace, okCalls, raised>>

\* Mutant of Propagate: the error of a parameter is wrapped.
PropagateWrapped(err) == [kind |-> "Wrapped", err |-> err]

\* What a caller of resolve does with the error the call returned: resolve
\* returns it unchanged.
Propagate(err) == err

\* A resolve call returns to the resolve call that made it.
ResolveReturn(th) ==
    /\ Len(frames[th]) > 1
    /\ Top(th).st = "ret"
    /\ LET child == Top(th)
           parent == frames[th][Len(frames[th]) - 1]
           after == IF child.err # Nil
                    THEN [parent EXCEPT !.st = "ret", !.err = Propagate(child.err)]
                    ELSE [parent EXCEPT !.deps = SetArg(@, parent.i, child.val),
                                        !.i = @ + 1]
       IN  frames' = [frames EXCEPT ![th] =
                        [Pop(@) EXCEPT ![Len(@) - 1] = after]]
    /\ UNCHANGED <<locks, providers, instances, onStart, onStop, run, trace, okCalls, raised>>


(***************************************************************************)
(* Container.Run                                                           *)
(***************************************************************************)
\* The checks Run makes on its argument.
ValidateEntry(fn) ==
    IF fn.kind # "func" THEN NotAFunctionError
    ELSE IF Len(fn.outs) > 1 THEN InvalidFactoryReturnError(Len(fn.outs))
    ELSE IF Len(fn.outs) = 1 /\ Name(fn.outs[1]) # "error"
         THEN UnexpectedReturnTypeError(Name(fn.outs[1]))
    ELSE Nil

RunBegin(th, c, fn) ==
    /\ run[th].pc = "idle"
    /\ run' = [run EXCEPT ![th] =
                 IF ValidateEntry(fn) # Nil
                 THEN [IdleRun EXCEPT !.pc = "done", !.c = c, !.fn = fn,
                                      !.result = ValidateEntry(fn)]
                 ELSE [IdleRun EXCEPT !.pc = "deps", !.c = c, !.fn = fn,
                                      !.deps = Make(Len(fn.ins)), !.i = 1]]
    /\ trace' = [trace EXCEPT ![th] = <<>>]
    /\ raised' = [raised EXCEPT ![th] = NoRaise]
    /\ UNCHANGED <<locks, providers, instances, onStart, onStop, frames, okCalls>>

\* The stack Run hands to resolve for a parameter of the entry function.
RunStack == <<>>

\* Mutant of LoopContinues: no break after a failed resolution.
LoopContinuesNoBreak(r) == r.i <= Len(r.fn.ins)

\* Run's loop goes on: a parameter is left and no break was taken.
LoopContinues(r) == ErrorSetIsEmpty(r.errors) /\ r.i <= Len(r.fn.ins)

\* Run's loop: c.resolve(argType, nil) for the next parameter.
RunResolve(th) ==
    /\ run[th].pc = "deps"
    /\ frames[th] = <<>>
    /\ LoopContinues(run[th])
    /\ frames' = [frames EXCEPT ![th] = <<Frame(run[th].fn.ins[run[th].i], RunStack)>>]
    /\ UNCHANGED <<locks, providers, instances, onStart, onStop, run, trace, okCalls, raised>>

\* Run's loop: the call returned; an error is added to the set and ends the loop.
RunResolved(th) ==
    /\ run[th].pc = "deps"
    /\ Len(frames[th]) = 1
    /\ Top(th).st = "ret"
    /\ frames' = [frames EXCEPT ![th] = <<>>]
    /\ run' = [run EXCEPT ![th] =
                 IF Top(th).err # Nil
                 THEN [@ EXCEPT !.errors = ErrorSetAdd(@, Top(th).err)]
                 ELSE [@ EXCEPT !.deps = SetArg(@, run[th].i, Top(th).val),
                                !.i = @ + 1]]
    /\ UNCHANGED <<locks, providers, instances, onStart, onStop, trace, okCalls, raised>>

\* After the loop: a resolution error ends Run with errorSet.Result().
RunAbort(th) ==
    /\ run[th].pc = "deps"
    /\ frames[th] = <<>>
    /\ ~LoopContinues(run[th])
    /\ ~ErrorSetIsEmpty(run[th].errors)
    /\ run' = [run EXCEPT ![th] = [@ EXCEPT !.pc = "done",
                                     !.result = ErrorSetResult(run[th].errors)]]
    /\ UNCHANGED <<locks, providers, instances, onStart, onStop, frames, trace, okCalls, raised>>

\* Mutant of StartList: Start ranges over the OnStop list.
StartListStop(c) == onStop[c]

\* The list LifecycleHooks.Start ranges over, and the one Stop ranges over.
StartList(c) == onStart[c]
StopList(c) == onStop[c]

\* After the loop, every parameter resolved: c.hooks.Start() is called.
RunStart(th) ==
    /\ run[th].pc = "deps"
    /\ frames[th] = <<>>
    /\ ~LoopContinues(run[th])
    /\ ErrorSetIsEmpty(run[th].errors)
    /\ run' = [run EXCEPT ![th] = [@ EXCEPT !.pc = "starting",
                                     !.hooks = StartList(run[th].c), !.h = 1]]
    /\ trace' = [trace EXCEPT ![th] = Append(@, Event("Start", "hooks", "", 0, TRUE))]
    /\ UNCHANGED <<locks, providers, instances, onStart, onStop, frames, okCalls, raised>>

\* Mutant of AfterStartError: Run goes on to Stop after a failed Start.
AfterStartErrorStop == "stop"

\* Where Run goes when Start has returned err: it returns.
AfterStartError == "done"

\* Mutant of StartHookFailed: the callable's error is dropped.
StartHookFailedNever(ok) == FALSE

\* if err := hook(); err != nil, in Start's loop.
StartHookFailed(ok) == ~ok

\* Start's loop: one OnStart callable; its error is Start's, and Run's, result.
RunStartHook(th) ==
    /\ run[th].pc = "starting"
    /\ run[th].h <= Len(run[th].hooks)
    /\ \E ok \in BOOLEAN :
       /\ trace' = [trace EXCEPT ![th] =
                      Append(@, Event("onStart", run[th].hooks[run[th].h].by,
                                      run[th].hooks[run[th].h].on, run[th].h, ok))]
       /\ run' = [run EXCEPT ![th] =
                    IF ~StartHookFailed(ok) THEN [@ EXCEPT !.h = @ + 1]
                    ELSE LET es == ErrorSetAdd(run[th].errors,
                                               HookError(run[th].hooks[run[th].h]))
                         IN  [@ EXCEPT !.errors = es,
                                       !.pc = AfterStartError,
                                       !.result = ErrorSetResult(es)]]
    /\ UNCHANGED <<locks, providers, instances, onStart, onStop, frames, okCalls, raised>>

\* Start returned nil.
RunStarted(th) ==
    /\ run[th].pc = "starting"
    /\ run[th].h > Len(run[th].hooks)
    /\ run' = [run EXCEPT ![th] = [@ EXCEPT !.pc = "entry"]]
    /\ UNCHANGED <<locks, providers, instances, onStart, onStop, frames, trace, okCalls, raised>>

\* Mutant of AfterEntry: Run returns at once when the entry function failed.
AfterEntrySkipStop(ok) == IF ok THEN "stop" ELSE "done"

\* Where Run goes when the entry function has returned: to Stop, error or not.
AfterEntry(ok) == "stop"

\* reflect.ValueOf(fn).Call(dependencies): a non-nil result is added to the set.
RunEntry(th) ==
    /\ run[th].pc = "entry"
    /\ \E ok \in (IF Len(run[th].fn.outs) = 1 THEN BOOLEAN ELSE {TRUE}) :
       /\ trace' = [trace EXCEPT ![th] =
                      Append(@, Event("entry", run[th].fn.ptr, "", 0, ok))]
       /\ run' = [run EXCEPT ![th] =
                    [@ EXCEPT !.pc = AfterEntry(ok),
                              !.errors = IF ok THEN @ ELSE ErrorSetAdd(@, EntryError)]]
    /\ UNCHANGED <<locks, providers, instances, onStart, onStop, frames, okCalls, raised>>

\* c.hooks.Stop() is called.
RunStop(th) ==
    /\ run[th].pc = "stop"
    /\ run' = [run EXCEPT ![th] = [@ EXCEPT !.pc = "stopping",
                                     !.hooks = StopList(run[th].c), !.h = 1]]
    /\ trace' = [trace EXCEPT ![th] = Append(@, Event("Stop", "hooks", "", 0, TRUE))]
    /\ UNCHANGED <<locks, providers, instances, onStart, onStop, frames, okCalls, raised>>

\* Mutant of StopHookFailed: the callable's error is dropped.
StopHookFailedNever(ok) == FALSE

\* if err := hook(); err != nil, in Stop's loop.
StopHookFailed(ok) == ~ok

\* Stop's loop: one OnStop callable; its error is Stop's result, which Run adds
\* to the set before it returns errorSet.Result().
RunStopHook(th) ==
    /\ run[th].pc = "stopping"
    /\ run[th].h <= Len(run[th].hooks)
    /\ \E ok \in BOOLEAN :
       /\ trace' = [trace EXCEPT ![th] =
                      Append(@, Event("onStop", run[th].hooks[run[th].h].by,
                                      run[th].hooks[run[th].h].on, run[th].h, ok))]
       /\ run' = [run EXCEPT ![th] =
                    IF ~StopHookFailed(ok) THEN [@ EXCEPT !.h = @ + 1]
                    ELSE LET es == ErrorSetAdd(run[th].errors,
                                               HookError(run[th].hooks[run[th].h]))
                         IN  [@ EXCEPT !.errors = es, !.pc = "done",
                                       !.result = ErrorSetResult(es)]]
    /\ UNCHANGED <<locks, providers, instances, onStart, onStop, frames, okCalls, raised>>

\* Stop returned nil: Run returns errorSet.Result().
RunStopped(th) ==
    /\ run[th].pc = "stopping"
    /\ run[th].h > Len(run[th].hooks)
    /\ run' = [run EXCEPT ![th] = [@ EXCEPT !.pc = "done",
                                     !.result = ErrorSetResult(run[th].errors)]]
    /\ UNCHANGED <<locks, providers, instances, onStart, onStop, frames, trace, okCalls, raised>>

(***************************************************************************)
(* Container.Merge                                                         *)
(***************************************************************************)
\* Mutant of MergeOne: an entry with another factory is replaced.
MergeOneOverwrite(table, t, factory) ==
    [table |-> Put(table, t, factory), err |-> Nil]

\* One turn of Merge's loop on table, for the entry (t, factory) of other.
MergeOne(table, t, factory) ==
    IF t \in DOMAIN table
    THEN IF Pointer(table[t]) # Pointer(factory)
         THEN [table |-> table, err |-> FactoryAlreadyProvidedError(Name(t))]
         ELSE [table |-> table, err |-> Nil]
    ELSE [table |-> Put(table, t, factory), err |-> Nil]

\* Merge's loop over the entries order[k..] of other: it returns at the first
\* error; k is the entry it returned at.
RECURSIVE MergeFrom(_, _, _, _)
MergeFrom(table, other, order, k) ==
    IF k > Len(order) THEN [table |-> table, err |-> Nil, k |-> k]
    ELSE LET one == MergeOne(table, order[k], other[order[k]])
         IN  IF one.err # Nil THEN [table |-> one.table, err |-> one.err, k |-> k]
             ELSE MergeFrom(one.table, other, order, k + 1)

\* The orders in which a range loop may visit the keys S of a map.
Orders(S) ==
    { s \in [1..Cardinality(S) -> S] :
        \A i, j \in 1..Cardinality(S) : i # j => s[i] # s[j] }

\* Mutant of MergedCache: the instances of other are taken over too.
MergedCacheCopied(cache, otherCache) ==
    [t \in DOMAIN cache \cup DOMAIN otherCache |->
        IF t \in DOMAIN cache THEN cache[t] ELSE otherCache[t]]

\* c.instances after c.Merge(other): Merge's loop writes c.providers only.
MergedCache(cache, otherCache) == cache

Merge(th, c, other) ==
    /\ run[th].pc = "idle"
    /\ CanLock(c)
    /\ instances' = [instances EXCEPT ![c] = MergedCache(@, instances[other])]
    /\ \E order \in Orders(DOMAIN providers[other]) :
          LET r == MergeFrom(providers[c], providers[other], order, 1)
          IN  /\ providers' = [providers EXCEPT ![c] = r.table]
              /\ run' = [run EXCEPT ![th] = [IdleRun EXCEPT !.pc = "merged",
                                             !.c = c, !.other = other,
                                             !.in = order, !.i = r.k,
                                             !.result = r.err]]
    /\ UNCHANGED <<locks, onStart, onStop, frames, trace, okCalls, raised>>

(***************************************************************************)
(* errs.ErrorSet in the hands of a caller                                  *)
(***************************************************************************)
\* errSet := &ErrorSet{}
EsNew(th) ==
    /\ run[th].pc = "idle"
    /\ run' = [run EXCEPT ![th] = [IdleRun EXCEPT !.pc = "es", !.op = "New"]]
    /\ UNCHANGED <<locks, providers, instances, onStart, onStop, frames, trace, okCalls, raised>>

\* errSet.Add(err)
EsAdd(th, err) ==
    /\ run[th].pc = "es"
    /\ Len(run[th].in) < MaxErrors
    /\ run' = [run EXCEPT ![th] = [@ EXCEPT !.op = "Add",
                                     !.errors = ErrorSetAdd(@, err),
                                     !.in = Append(@, err),
                                     !.result = Nil]]
    /\ UNCHANGED <<locks, providers, instances, onStart, onStop, frames, trace, okCalls, raised>>

\* errSet.Errors()
EsErrors(th) ==
    /\ run[th].pc = "es"
    /\ run' = [run EXCEPT ![th] = [@ EXCEPT !.op = "Errors",
                                     !.errors = ErrorSetErrors(@),
                                     !.result = [kind |-> "slice",
                                                 errors |-> ErrorSetErrors(run[th].errors)]]]
    /\ UNCHANGED <<locks, providers, instances, onStart, onStop, frames, trace, okCalls, raised>>

\* errSet.Error()
EsError(th) ==
    /\ run[th].pc = "es"
    /\ run' = [run EXCEPT ![th] = [@ EXCEPT !.op = "Error",
                                     !.errors = ErrorSetErrors(@),
                                     !.result = [kind |-> "string",
                                                 s |-> ErrorSetError(run[th].errors)]]]
    /\ UNCHANGED <<locks, providers, instances, onStart, onStop, frames, trace, okCalls, raised>>

\* errSet.Result()
EsResult(th) ==
    /\ run[th].pc = "es"
    /\ run' = [run EXCEPT ![th] = [@ EXCEPT !.op = "Result",
                                     !.result = ErrorSetResult(run[th].errors)]]
    /\ UNCHANGED <<locks, providers, instances, onStart, onStop, frames, trace, okCalls, raised>>

\* Provide, Merge or Run returns to its caller; an ErrorSet is dropped.
Return(th) ==
    /\ run[th].pc \in {"provided", "merged", "done", "es"}
    /\ run' = [run EXCEPT ![th] = IdleRun]
    /\ trace' = [trace EXCEPT ![th] = <<>>]
    /\ raised' = [raised EXCEPT ![th] = NoRaise]
    /\ UNCHANGED <<locks, providers, instances, onStart, onStop, frames, okCalls>>

(***************************************************************************)
(* Several callers: Provide and resolve step by step, one step per lock    *)
(* operation, so that the steps of different threads interleave.           *)
(***************************************************************************)
\* c.mu.Lock() in Provide.
ProvideLock(th, c, factories) ==
    /\ run[th].pc = "idle"
    /\ CanLock(c)
    /\ locks' = [locks EXCEPT ![c].w = th]
    /\ run' = [run EXCEPT ![th] = [IdleRun EXCEPT !.pc = "locked", !.c = c,
                                   !.in = factories]]
    /\ UNCHANGED <<providers, instances, onStart, onStop, frames, trace, okCalls, raised>>

\* Provide's loop, its return and the deferred c.mu.Unlock().
ProvideUnlock(th) ==
    /\ run[th].pc = "locked"
    /\ LET c == run[th].c
           r == ProvideFrom(providers[c], run[th].in, 1)
       IN  /\ providers' = [providers EXCEPT ![c] = r.table]
           /\ run' = [run EXCEPT ![th] = [@ EXCEPT !.pc = "provided",
                                                   !.result = r.err]]
           /\ locks' = [locks EXCEPT ![c].w = 0]
    /\ UNCHANGED <<instances, onStart, onStop, frames, trace, okCalls, raised>>

\* The cycle check, which returns without the lock, or c.mu.RLock().
ResolveRLock(th) ==
    /\ frames[th] # <<>>
    /\ Top(th).st = "enter"
    /\ IF Contains(Top(th).stack, Top(th).t)
       THEN ResolveHead(th) /\ UNCHANGED locks
       ELSE /\ CanRLock(run[th].c)
            /\ locks' = [locks EXCEPT ![run[th].c].r = @ \cup {th}]
            /\ frames' = SetTop(th, [Top(th) EXCEPT !.st = "rlocked"])
            /\ UNCHANGED <<providers, instances, onStart, onStop, run, trace,
                           okCalls, raised>>

\* Mutant of AfterRUnlock: the read lock is kept until resolve returns.
AfterRUnlockHeld(r, th) == r

\* The threads inside RLock after th's c.mu.RUnlock().
AfterRUnlock(r, th) == r \ {th}

\* The two reads under the read lock, c.mu.RUnlock(), and the branches on
\* what was read.
ResolveRUnlock(th) ==
    /\ frames[th] # <<>>
    /\ Top(th).st = "rlocked"
    /\ ResolveHead(th)
    /\ locks' = [locks EXCEPT ![run[th].c].r = AfterRUnlock(@, th)]

\* The number of OnStart and OnStop calls the body of f, called with deps,
\* makes on a Container's Hooks.
Registrations(f, deps) ==
    IF RegistersOn(f, deps) = {} THEN 0 ELSE f.starts + f.stops

\* The factory body calls OnStart or OnStop: h.mu.Lock().
BodyLock(th) ==
    /\ frames[th] # <<>>
    /\ Top(th).st = "args"
    /\ LET f == Top(th).provider
           k == Top(th).i - Len(f.ins)
       IN  /\ k >= 1
           /\ k <= Registrations(f, Top(th).deps)
           /\ \E c2 \in RegistersOn(f, Top(th).deps) :
                 /\ CanLockHooks(c2)
                 /\ Len(IF k <= f.starts THEN onStart[c2] ELSE onStop[c2]) < MaxHooks
                 /\ locks' = [locks EXCEPT ![c2].h = th]
    /\ frames' = SetTop(th, [Top(th) EXCEPT !.st = "hook"])
    /\ UNCHANGED <<providers, instances, onStart, onStop, run, trace, okCalls, raised>>

\* The append in OnStart or OnStop and the deferred h.mu.Unlock().
BodyRegister(th) ==
    /\ frames[th] # <<>>
    /\ Top(th).st = "hook"
    /\ LET f == Top(th).provider
           k == Top(th).i - Len(f.ins)
       IN  \E c2 \in RegistersOn(f, Top(th).deps) :
              /\ IF k <= f.starts
                 THEN /\ onStart' = [onStart EXCEPT ![c2] = OnStart(@, Hook(f, "start"))]
                      /\ UNCHANGED onStop
                 ELSE /\ onStop' = [onStop EXCEPT ![c2] = OnStop(@, Hook(f, "stop"))]
                      /\ UNCHANGED onStart
              /\ locks' = [locks EXCEPT ![c2].h = 0]
    /\ frames' = SetTop(th, [Top(th) EXCEPT !.st = "args", !.i = @ + 1])
    /\ UNCHANGED <<providers, instances, run, trace, okCalls, raised>>

\* The factory body returns.
BodyReturn(th) ==
    /\ frames[th] # <<>>
    /\ Top(th).st = "args"
    /\ Top(th).i > Len(Top(th).provider.ins)
                      + Registrations(Top(th).provider, Top(th).deps)
    /\ CallResult(th)
    /\ UNCHANGED <<locks, providers, instances, onStart, onStop, run>>

\* The threads whose access to c.instances is not ordered with th's write of
\* it: those between RLock and RUnlock, and those at their own write.
Racing(th) ==
    { o \in Threads \ {th} :
        /\ frames[o] # <<>>
        /\ run[o].c = run[th].c
        /\ Top(o).st \in {"rlocked", "store"} }

\* The write of c.instances races with another access to the map: the Go
\* runtime may detect it ("fatal error: concurrent map read and map write",
\* "concurrent map writes") and end the process; otherwise the write is
\* made, which is ResolveStore.
Fatal(th) ==
    /\ frames[th] # <<>>
    /\ Top(th).st = "store"
    /\ Racing(th) # {}
    /\ run' = [o \in Threads |-> [run[o] EXCEPT !.pc = "fatal"]]
    /\ frames' = [o \in Threads |-> <<>>]
    /\ UNCHANGED <<locks, providers, instances, onStart, onStop, trace, okCalls, raised>>

(***************************************************************************)
(* One caller, one container: any sequence of Provide and Run calls on     *)
(* container "a", each completed before the next begins.                   *)
(***************************************************************************)
ProvideArgs == SeqsUpTo(Factories, MaxBatch)

Next ==
    \/ \E fs \in ProvideArgs : Provide(1, "a", fs)
    \/ \E fn \in EntryFns : RunBegin(1, "a", fn)
    \/ RunResolve(1)
    \/ ResolveEnter(1)
    \/ ResolveInject(1)
    \/ ResolveRecurse(1)
    \/ ResolveCall(1)
    \/ ResolveStore(1)
    \/ ResolveReturn(1)
    \/ RunResolved(1)
    \/ RunAbort(1)
    \/ RunStart(1)
    \/ RunStartHook(1)
    \/ RunStarted(1)
    \/ RunEntry(1)
    \/ RunStop(1)
    \/ RunStopHook(1)
    \/ RunStopped(1)
    \/ Return(1)

Spec == Init /\ [][Next]_vars

(***************************************************************************)
(* One caller, two containers: any sequence of Provide and Merge calls.    *)
(* mkInt is a function literal that captures a variable: its closures are  *)
(* different function values with one code pointer.                        *)
(***************************************************************************)
MkInt(env) == Closure(Fn("mkInt", <<>>, <<"int">>, 0, 0), env)

MergeFactories ==
    { f \in ValidFactories : f.ptr \in {"newInt", "newA", "aFromB", "newB", "bFromA"} }
    \cup { MkInt(1), MkInt(2) }

NextMerge ==
    \/ \E c \in Containers : \E f \in MergeFactories : Provide(1, c, <<f>>)
    \/ \E c \in Containers : \E other \in Containers : Merge(1, c, other)
    \/ Return(1)

SpecMerge == Init /\ [][NextMerge]_vars

(***************************************************************************)
(* One caller, one container: any sequence of Provide calls with several   *)
(* factories.                                                              *)
(***************************************************************************)
BatchFactories ==
    { f \in Factories : f.ptr \in {"newInt", "intFromA", "newA", "badSecond", "none"} }

NextProvide ==
    \/ \E fs \in SeqsUpTo(BatchFactories, MaxProvide) : Provide(1, "a", fs)
    \/ Return(1)

SpecProvide == Init /\ [][NextProvide]_vars

(***************************************************************************)
(* One caller with an ErrorSet of its own: any sequence of Add, Errors,    *)
(* Error and Result calls.                                                 *)
(***************************************************************************)
SomeErrors == { ErrorsNew("First error"), ErrorsNew("Second error"), EntryError }

NextErrs ==
    \/ EsNew(1)
    \/ \E err \in SomeErrors : EsAdd(1, err)
    \/ EsErrors(1)
    \/ EsError(1)
    \/ EsResult(1)
    \/ Return(1)

SpecErrs == Init /\ [][NextErrs]_vars

(***************************************************************************)
(* One caller, two containers: any sequence of Provide, Merge and Run      *)
(* calls, each completed before the next begins.                           *)
(***************************************************************************)
SeqFactories == { f \in ValidFactories : f.ptr \in {"newInt", "newIntHooks", "newA"} }

SeqEntryFns == { Fn("main", ins, <<>>, 0, 0) : ins \in { <<"int">>, <<"*ServiceA">> } }

NextSeq ==
    \/ \E c \in Containers : \E f \in SeqFactories : Provide(1, c, <<f>>)
    \/ \E c \in Containers : \E other \in Containers : Merge(1, c, other)
    \/ \E c \in Containers : \E fn \in SeqEntryFns : RunBegin(1, c, fn)
    \/ RunResolve(1)
    \/ ResolveEnter(1)
    \/ ResolveInject(1)
    \/ ResolveRecurse(1)
    \/ ResolveCall(1)
    \/ ResolveStore(1)
    \/ ResolveReturn(1)
    \/ RunResolved(1)
    \/ RunAbort(1)
    \/ RunStart(1)
    \/ RunStartHook(1)
    \/ RunStarted(1)
    \/ RunEntry(1)
    \/ RunStop(1)
    \/ RunStopHook(1)
    \/ RunStopped(1)
    \/ Return(1)

SpecSeq == Init /\ [][NextSeq]_vars

(***************************************************************************)
(* One caller, one container, provider tables with cycles: selfA takes     *)
(* the Type it returns, intFromA and newA form a cycle of two, aFromB and  *)
(* bFromA another.  The goroutine that called Run keeps running, and a     *)
(* factory that is called returns: the steps of resolve are taken as long  *)
(* as one is possible.                                                     *)
(***************************************************************************)
CycleFactories ==
    { f \in ValidFactories :
        f.ptr \in {"newInt", "intFromA", "newA", "aFromB", "newB", "bFromA"} }
    \cup { Fn("selfA", <<"*ServiceA">>, <<"*ServiceA">>, 0, 0) }

CycleEntryFns ==
    { Fn("main", ins, <<>>, 0, 0) : ins \in { <<"int">>, <<"*ServiceA">>, <<"*ServiceB">> } }

ResolveNext(th) ==
    \/ ResolveEnter(th)
    \/ ResolveInject(th)
    \/ ResolveRecurse(th)
    \/ ResolveCall(th)
    \/ ResolveStore(th)
    \/ ResolveReturn(th)

NextCycle ==
    \/ \E f \in CycleFactories : Provide(1, "a", <<f>>)
    \/ \E fn \in CycleEntryFns : RunBegin(1, "a", fn)
    \/ RunResolve(1)
    \/ ResolveNext(1)
    \/ RunResolved(1)
    \/ RunAbort(1)
    \/ RunStart(1)
    \/ RunStartHook(1)
    \/ RunStarted(1)
    \/ RunEntry(1)
    \/ RunStop(1)
    \/ RunStopHook(1)
    \/ RunStopped(1)
    \/ Return(1)

SpecCycle == Init /\ [][NextCycle]_vars /\ WF_vars(ResolveNext(1))

(***************************************************************************)
(* One caller, one container, a deep acyclic provider graph: T1 needs T2,  *)
(* ... T5 needs T6, T6 needs *ServiceA and *ServiceB, *ServiceB needs      *)
(* *ServiceA and int, *ServiceA needs int; int needs nothing (newInt) or   *)
(* *ServiceA (intFromA), which closes a cycle.  From the fourth call on    *)
(* the stacks of a call's parameters are slices of one array.              *)
(***************************************************************************)
DeepFactories ==
    { Fn("newT1", <<"T2">>, <<"T1">>, 0, 0),
      Fn("newT2", <<"T3">>, <<"T2">>, 0, 0),
      Fn("newT3", <<"T4">>, <<"T3">>, 0, 0),
      Fn("newT4", <<"T5">>, <<"T4">>, 0, 0),
      Fn("newT5", <<"T6">>, <<"T5">>, 0, 0),
      Fn("newT6", <<"*ServiceA", "*ServiceB">>, <<"T6">>, 0, 0) }
    \cup { f \in ValidFactories : f.ptr \in {"newInt", "intFromA", "newA", "bFromA"} }

DeepEntryFns ==
    { Fn("main", ins, <<>>, 0, 0) : ins \in { <<"T1">>, <<"T4">>, <<"*ServiceB">> } }

NextDeep ==
    \/ \E f \in DeepFactories : Provide(1, "a", <<f>>)
    \/ \E fn \in DeepEntryFns : RunBegin(1, "a", fn)
    \/ RunResolve(1)
    \/ ResolveEnter(1)
    \/ ResolveRecurse(1)
    \/ ResolveCall(1)
    \/ ResolveStore(1)
    \/ ResolveReturn(1)
    \/ RunResolved(1)
    \/ RunAbort(1)
    \/ RunStart(1)
    \/ RunStarted(1)
    \/ RunEntry(1)
    \/ RunStop(1)
    \/ RunStopped(1)
    \/ Return(1)

SpecDeep == Init /\ [][NextDeep]_vars

(***************************************************************************)
(* Two callers, one container: Provide and Run calls on container "a"      *)
(* from two goroutines, in any interleaving of their steps.  Start and     *)
(* Stop read the hook lists without h.mu; the range expression is          *)
(* evaluated once, before or after a concurrent append.                    *)
(***************************************************************************)
ConcFactories == { f \in ValidFactories : f.ptr \in {"newIntHooks", "newA"} }

ConcEntryFns == { Fn("main", ins, <<>>, 0, 0) : ins \in { <<"int">>, <<"*ServiceA">> } }

NextConc ==
    \E th \in Threads :
       \/ \E f \in ConcFactories : ProvideLock(th, "a", <<f>>)
       \/ ProvideUnlock(th)
       \/ \E fn \in ConcEntryFns : RunBegin(th, "a", fn)
       \/ RunResolve(th)
       \/ ResolveRLock(th)
       \/ ResolveRUnlock(th)
       \/ ResolveInject(th)
       \/ ResolveRecurse(th)
       \/ BodyLock(th)
       \/ BodyRegister(th)
       \/ BodyReturn(th)
       \/ ResolveStore(th)
       \/ Fatal(th)
       \/ ResolveReturn(th)
       \/ RunResolved(th)
       \/ RunAbort(th)
       \/ RunStart(th)
       \/ RunStartHook(th)
       \/ RunStarted(th)
       \/ RunEntry(th)
       \/ RunStop(th)
       \/ RunStopHook(th)
       \/ RunStopped(th)
       \/ Return(th)

SpecConc == Init /\ [][NextConc]_vars


(***************************************************************************)
(* Properties                                                              *)
(***************************************************************************)
OnStack(stack, t) == t \in { stack[k] : k \in 1..Len(stack) }

\* The code pointers of the factories th's current Run has invoked.
Invoked(th) ==
    { trace[th][k].by : k \in { j \in 1..Len(trace[th]) : trace[th][j].ev = "factory" } }

\* The failed resolve call is the only one returning, its error is what every
\* enclosing call returns, what Run adds to its set and what Run returns.
ReturnedUnchanged(th) ==
    /\ \A k \in 1..Len(frames[th]) :
          frames[th][k].st = "ret" => frames[th][k].err = raised[th].err
    /\ (run[th].pc = "deps" /\ frames[th] = <<>>) => run[th].errors = <<raised[th].err>>
    /\ run[th].pc = "done" => run[th].result = raised[th].err

\* C1: a factory that returns a value is invoked once per container: it is
\* never invoked for a cached Type, a cached Type was built by exactly one
\* successful invocation, and every resolution that yields a value (directly,
\* or as a parameter of several other factories) yields the cached instance.
C1_SingletonMemoization ==
    /\ \A c \in Containers, t \in Types :
          /\ okCalls[c][t] <= 1
          /\ HasInstance(c, t) => okCalls[c][t] = 1
          /\ HasInstance(c, t) =>
                \A j \in 1..Len(providers[c][t].ins) :
                   ~ImplementsHooks(providers[c][t].ins[j]) =>
                      instances[c][t].args[j] = instances[c][providers[c][t].ins[j]]
    /\ \A th \in Threads :
          /\ \A k \in 1..Len(frames[th]) :
                LET fr == frames[th][k]
                    c == run[th].c
                IN  /\ (fr.st = "store"
                          \/ (fr.st = "ret" /\ fr.err = FactoryError(fr.provider)))
                       => ~HasInstance(c, fr.t)
                    /\ (fr.st = "ret" /\ fr.err = Nil)
                       => HasInstance(c, fr.t) /\ fr.val = instances[c][fr.t]
                    /\ fr.st = "args" =>
                          \A j \in 1..(fr.i - 1) :
                             ~ImplementsHooks(fr.provider.ins[j]) =>
                                fr.deps[j] = instances[c][fr.provider.ins[j]]
          /\ run[th].pc = "deps" =>
                \A j \in 1..(run[th].i - 1) :
                   run[th].deps[j] = instances[run[th].c][run[th].fn.ins[j]]

\* C1's case: a Run of main(*ServiceA, *ServiceB) has ended, both values were
\* built from int, whose factory ran once, and they hold the same int.
C1_Witness ==
    /\ run[1].pc = "done"
    /\ run[1].result = Nil
    /\ run[1].fn.ins = <<"*ServiceA", "*ServiceB">>
    /\ run[1].deps[1].by = "newA"
    /\ run[1].deps[2].by = "newB"
    /\ run[1].deps[1].args[1] = run[1].deps[2].args[1]
    /\ okCalls["a"]["int"] = 1

\* The Types of the cycle that the resolve call of t on stack closes.
CycleTypes(stack, t) ==
    { stack[k] : k \in { j \in 1..Len(stack) :
                           \E i \in 1..j : stack[i] = t } }

\* C2: a resolve call for a Type that is on its own resolution stack fails
\* with CyclicDependencyError carrying that Type's name, Run returns that
\* error unchanged, and no factory of a Type on the cycle is invoked.
C2_CycleDetection ==
    \A th \in Threads :
       /\ \A k \in 1..Len(frames[th]) :
             LET fr == frames[th][k]
             IN  (fr.st # "enter" /\ OnStack(fr.stack, fr.t)) =>
                    /\ fr.st = "ret"
                    /\ fr.err = CyclicDependencyError(Name(fr.t))
                    /\ raised[th].t = fr.t
       /\ (raised[th].err # Nil /\ OnStack(raised[th].stack, raised[th].t)) =>
             /\ raised[th].err = CyclicDependencyError(Name(raised[th].t))
             /\ ReturnedUnchanged(th)
             /\ \A u \in CycleTypes(raised[th].stack, raised[th].t) :
                   /\ okCalls[run[th].c][u] = 0
                   /\ providers[run[th].c][u].ptr \notin Invoked(th)

\* C2's case: int needs *ServiceA, *ServiceA needs int, and a Run that
\* resolved int has returned the error naming int.
C2_Witness ==
    /\ run[1].pc = "done"
    /\ raised[1].t = "int"
    /\ raised[1].stack = <<"int", "*ServiceA">>
    /\ run[1].result = CyclicDependencyError("int")

\* C3: a resolve call for a Type with no cached instance and no provider fails
\* with DependencyResolutionError naming that Type and none of the requesting
\* Types, every enclosing resolve and Run return that error unchanged, and no
\* enclosing factory is invoked.
C3_MissingProvider ==
    \A th \in Threads :
       raised[th].err.kind = "DependencyResolutionError" =>
          /\ ~HasInstance(run[th].c, raised[th].t)
          /\ ~HasProvider(run[th].c, raised[th].t)
          /\ raised[th].err = DependencyResolutionError(Name(raised[th].t))
          /\ \A k \in 1..Len(raised[th].stack) :
                raised[th].err.TypeName # Name(raised[th].stack[k])
          /\ ReturnedUnchanged(th)
          /\ \A k \in 1..Len(raised[th].stack) :
                providers[run[th].c][raised[th].stack[k]].ptr \notin Invoked(th)

\* C4: in every step, an entry of a provider table keeps its factory; and a
\* Provide whose first factory is valid and produces a Type that already has
\* an entry returns FactoryAlreadyProvidedError with that Type's name and
\* leaves the table as it was.
C4_Step ==
    /\ \A c \in Containers :
          \A t \in DOMAIN providers[c] :
             t \in DOMAIN providers'[c] /\ providers'[c][t] = providers[c][t]
    /\ \A th \in Threads :
          (run[th].pc = "idle" /\ run'[th].pc = "provided" /\ Len(run'[th].in) > 0) =>
             LET f == run'[th].in[1]
                 c == run'[th].c
             IN  (ValidateFactory(f) = Nil /\ f.outs[1] \in DOMAIN providers[c]) =>
                    /\ run'[th].result = FactoryAlreadyProvidedError(Name(f.outs[1]))
                    /\ providers'[c] = providers[c]

C4_OneProviderPerType == [][C4_Step]_vars

\* C4's case: Provide was called with the very factory the table already
\* holds for int and has failed.
C4_Witness ==
    /\ run[1].pc = "provided"
    /\ Len(run[1].in) = 1
    /\ HasProvider("a", "int")
    /\ run[1].in[1] = providers["a"]["int"]
    /\ run[1].result = FactoryAlreadyProvidedError("int")


(***************************************************************************)
(* Run's protocol                                                          *)
(***************************************************************************)
Events(th, evs) == { k \in 1..Len(trace[th]) : trace[th][k].ev \in evs }

\* The k-th event of the trace restricted to the events named in evs.
RECURSIVE Restrict(_, _)
Restrict(tr, evs) ==
    IF tr = <<>> THEN <<>>
    ELSE IF tr[1].ev \in evs THEN <<tr[1]>> \o Restrict(Tail(tr), evs)
    ELSE Restrict(Tail(tr), evs)

Rank(ev) ==
    CASE ev = "factory" -> 1
      [] ev \in {"Start", "onStart"} -> 2
      [] ev = "entry" -> 3
      [] ev \in {"Stop", "onStop"} -> 4

\* C5: the user code of a Run is invoked in the order factories, OnStart
\* callables, entry function, OnStop callables; when the entry function is
\* invoked every callable of the OnStart list has run, in list order, and
\* returned nil; the entry function is invoked at most once; what Stop runs
\* are the callables of the OnStop list, in list order.
C5_PhaseOrder ==
    \A th \in Threads :
       LET tr == trace[th]
           c == run[th].c
           starts == Restrict(tr, {"onStart"})
           stops == Restrict(tr, {"onStop"})
       IN  /\ \A j, k \in 1..Len(tr) : j < k => Rank(tr[j].ev) <= Rank(tr[k].ev)
           /\ Cardinality(Events(th, {"entry"})) <= 1
           /\ \A k \in 1..Len(starts) :
                 /\ k <= Len(onStart[c])
                 /\ starts[k].k = k
                 /\ starts[k].on = "start"
                 /\ starts[k].by = onStart[c][k].by
           /\ \A k \in 1..Len(stops) :
                 /\ k <= Len(onStop[c])
                 /\ stops[k].k = k
                 /\ stops[k].on = "stop"
                 /\ stops[k].by = onStop[c][k].by
           /\ Events(th, {"entry"}) # {} =>
                 /\ Len(starts) = Len(onStart[c])
                 /\ \A k \in 1..Len(starts) : starts[k].ok
           /\ (run[th].pc = "done" /\ Events(th, {"Start"}) # {}
                  /\ \A k \in 1..Len(starts) : starts[k].ok) =>
                 Cardinality(Events(th, {"entry"})) = 1
           /\ (run[th].pc = "done" /\ Events(th, {"entry"}) # {}) =>
                 \/ Len(stops) = Len(onStop[c])
                 \/ (Len(stops) > 0 /\ ~stops[Len(stops)].ok)

\* C5's case: a Run has ended in which a factory, an OnStart callable, the
\* entry function and an OnStop callable were invoked, in this order.
C5_Witness ==
    /\ run[1].pc = "done"
    /\ run[1].result = Nil
    /\ Len(trace[1]) = 6
    /\ trace[1][1].ev = "factory"
    /\ trace[1][2].ev = "Start"
    /\ trace[1][3].ev = "onStart"
    /\ trace[1][4].ev = "entry"
    /\ trace[1][5].ev = "Stop"
    /\ trace[1][6].ev = "onStop"

\* The OnStart callables that returned an error in th's current Run.
FailedStarts(th) == { k \in Events(th, {"onStart"}) : ~trace[th][k].ok }

\* C6: when an OnStart callable has returned an error, it is the last user
\* code of the Run: the entry function and the OnStop callables are not
\* invoked, Stop is not called, and Run returns that error itself.
C6_StartFailure ==
    \A th \in Threads :
       \A k \in FailedStarts(th) :
          /\ k = Len(trace[th])
          /\ Events(th, {"entry", "Stop", "onStop"}) = {}
          /\ run[th].pc = "done"
          /\ run[th].result = HookError(onStart[run[th].c][trace[th][k].k])

\* C6's case: the second OnStart callable failed after the first returned
\* nil, and the container has OnStop callables.
C6_Witness ==
    /\ run[1].pc = "done"
    /\ Len(trace[1]) > 1
    /\ trace[1][Len(trace[1])].ev = "onStart"
    /\ trace[1][Len(trace[1])].k = 2
    /\ ~trace[1][Len(trace[1])].ok
    /\ trace[1][Len(trace[1]) - 1].ev = "onStart"
    /\ trace[1][Len(trace[1]) - 1].ok
    /\ Len(onStop["a"]) = 2

\* The errors of the entry function and of Stop in th's current Run.
EntryErrors(th) ==
    Restrict([k \in 1..Len(trace[th]) |->
                 IF trace[th][k].ok THEN Event("", "", "", 0, TRUE) ELSE trace[th][k]],
             {"entry"})
StopErrors(th) ==
    Restrict([k \in 1..Len(trace[th]) |->
                 IF trace[th][k].ok THEN Event("", "", "", 0, TRUE) ELSE trace[th][k]],
             {"onStop"})

\* C7: once the entry function has been invoked Stop is called exactly once,
\* whether or not the entry function failed; and Run returns nil when neither
\* failed, the one error when one of them failed, and an ErrorSet holding the
\* entry error and the Stop error when both failed.
C7_StopAndAggregate ==
    \A th \in Threads :
       LET c == run[th].c
           stopErr == HookError(onStop[c][StopErrors(th)[1].k])
       IN  /\ Cardinality(Events(th, {"Stop"})) <= 1
           /\ (Events(th, {"entry"}) # {} /\ run[th].pc \in {"stopping", "done"})
                 => Cardinality(Events(th, {"Stop"})) = 1
           /\ Events(th, {"entry"}) # {} => run[th].pc \in {"stop", "stopping", "done"}
           /\ (Events(th, {"entry"}) # {} /\ run[th].pc = "done") =>
                 /\ Len(StopErrors(th)) <= 1
                 /\ (EntryErrors(th) = <<>> /\ StopErrors(th) = <<>>)
                       <=> run[th].result = Nil
                 /\ (EntryErrors(th) # <<>> /\ StopErrors(th) = <<>>)
                       => run[th].result = EntryError
                 /\ (EntryErrors(th) = <<>> /\ StopErrors(th) # <<>>)
                       => run[th].result = stopErr
                 /\ (EntryErrors(th) # <<>> /\ StopErrors(th) # <<>>)
                       => /\ run[th].result.kind = "ErrorSet"
                          /\ Len(run[th].result.errors) = 2
                          /\ { run[th].result.errors[k] : k \in 1..2 }
                                = { EntryError, stopErr }
                          /\ EntryError # stopErr

\* C7's case: the entry function failed, Stop ran and failed too, and Run
\* returned the composite.
C7_Witness ==
    /\ run[1].pc = "done"
    /\ EntryErrors(1) # <<>>
    /\ StopErrors(1) # <<>>
    /\ run[1].result.kind = "ErrorSet"


\* C8: Run resolves the parameters of the entry function in declared order;
\* once a resolve call has failed no further resolve call begins and no user
\* code is invoked (no factory, no hook, not the entry function), the
\* parameters after the failed one stay unresolved, and Run returns the
\* error of that call itself, not an ErrorSet.
C8_ResolutionFailure ==
    \A th \in Threads :
       /\ run[th].pc = "deps" =>
             /\ \A j \in 1..Len(run[th].fn.ins) :
                   (j < run[th].i) <=> (run[th].deps[j] # Nil)
             /\ frames[th] # <<>> => frames[th][1].t = run[th].fn.ins[run[th].i]
       /\ raised[th].err # Nil =>
             /\ run[th].pc \in {"deps", "done"}
             /\ run[th].i <= Len(run[th].fn.ins)
             /\ \A j \in run[th].i..Len(run[th].fn.ins) : run[th].deps[j] = Nil
             /\ \A k \in 1..Len(frames[th]) :
                   frames[th][k].st = (IF k = Len(frames[th]) THEN "ret" ELSE "args")
             /\ Len(trace[th]) = raised[th].n
             /\ \A k \in 1..Len(trace[th]) : trace[th][k].ev = "factory"
             /\ ReturnedUnchanged(th)
             /\ run[th].pc = "done" =>
                   /\ run[th].result = raised[th].err
                   /\ run[th].result.kind # "ErrorSet"

\* C8's case: Run of a function of two parameters has returned the error of
\* its first parameter; the second has a cached instance and the container
\* has hooks.
C8_Witness ==
    /\ run[1].pc = "done"
    /\ Len(run[1].fn.ins) = 2
    /\ raised[1].err # Nil
    /\ run[1].result = raised[1].err
    /\ run[1].i = 1
    /\ HasInstance("a", run[1].fn.ins[2])
    /\ Len(onStart["a"]) > 0
    /\ Len(onStop["a"]) > 0

\* C9: a factory parameter of the Hooks type always receives the Hooks of
\* the container, whose lists Run's Start and Stop range over and on which
\* the factories' callables are registered; resolve is never called for it,
\* so no provider registered for Hooks is used, no resolution error names it
\* and the cache never holds the injected object.
C9_HooksInjection ==
    /\ \A th \in Threads :
          /\ \A k \in 1..Len(frames[th]) :
                LET fr == frames[th][k]
                IN  /\ fr.t = HooksT => fr.stack = <<>>
                    /\ fr.provider # NoFn =>
                          \A j \in 1..(fr.i - 1) :
                             fr.provider.ins[j] = HooksT =>
                                fr.deps[j] = HooksOf(run[th].c)
          /\ raised[th].t = HooksT => raised[th].stack = <<>>
          /\ run[th].pc = "starting" => run[th].hooks = onStart[run[th].c]
          /\ run[th].pc = "stopping" => run[th].hooks = onStop[run[th].c]
    /\ \A c \in Containers :
          \A t \in DOMAIN instances[c] :
             LET f == providers[c][t]
             IN  /\ instances[c][t] # HooksOf(c)
                 /\ \A j \in 1..Len(f.ins) :
                       f.ins[j] = HooksT => instances[c][t].args[j] = HooksOf(c)
                 /\ (f.starts > 0 /\ \E j \in 1..Len(f.ins) : f.ins[j] = HooksT) =>
                       /\ \E k \in 1..Len(onStart[c]) : onStart[c][k] = Hook(f, "start")
                       /\ \E k \in 1..Len(onStop[c]) : onStop[c][k] = Hook(f, "stop")

\* C9's case: a provider is registered for Hooks and was never used, two
\* factories with a Hooks parameter have been given the container's Hooks,
\* and Start is running the two callables they registered.
C9_Witness ==
    /\ HasProvider("a", HooksT)
    /\ ~HasInstance("a", HooksT)
    /\ HasInstance("a", "int")
    /\ HasInstance("a", "*ServiceB")
    /\ instances["a"]["int"].by = "newIntHooks"
    /\ instances["a"]["int"].args[1] = HooksOf("a")
    /\ instances["a"]["*ServiceB"].by = "newB"
    /\ instances["a"]["*ServiceB"].args[2] = HooksOf("a")
    /\ run[1].pc = "starting"
    /\ Len(run[1].hooks) = 2

\* C10: when a factory has returned an error, resolve and Run return exactly
\* that error, the factory's Type has no cache entry and its next resolution
\* reaches the factory again, and every dependency built on the way, and
\* every value a factory returned in this Run, is in the cache.
C10_FailedConstruction ==
    \A th \in Threads :
       raised[th].err.kind = "FactoryError" =>
          LET c == run[th].c
              t == raised[th].t
              f == providers[c][t]
          IN  /\ Len(f.outs) = 2
              /\ raised[th].err = FactoryError(f)
              /\ ~HasInstance(c, t)
              /\ ResolveLookup(c, t, RunStack).st = "args"
              /\ ResolveLookup(c, t, RunStack).provider = f
              /\ ReturnedUnchanged(th)
              /\ \A j \in 1..Len(f.ins) : f.ins[j] # HooksT => HasInstance(c, f.ins[j])
              /\ \A k \in 1..Len(trace[th]) :
                    trace[th][k].ok =>
                       \E u \in DOMAIN instances[c] :
                          instances[c][u].by = trace[th][k].by

\* C10's case: Run has returned the error of bFromA, called after its
\* dependencies int and *ServiceA were built in the same Run.
C10_Witness ==
    /\ run[1].pc = "done"
    /\ Len(trace[1]) = 3
    /\ trace[1][1].ok
    /\ trace[1][2].ok
    /\ ~trace[1][3].ok
    /\ trace[1][3].by = "bFromA"
    /\ run[1].result = [kind |-> "FactoryError", by |-> "bFromA"]
    /\ HasInstance("a", "int")
    /\ HasInstance("a", "*ServiceA")
    /\ ~HasInstance("a", "*ServiceB")


(***************************************************************************)
(* Merge                                                                   *)
(***************************************************************************)
\* The Types that have an entry in both tables with two different factories.
Conflicts(A, B) == { t \in DOMAIN A \cap DOMAIN B : A[t] # B[t] }

\* A's table plus B's entries for the Types A lacks.
Union(A, B) ==
    [t \in DOMAIN A \cup DOMAIN B |-> IF t \in DOMAIN A THEN A[t] ELSE B[t]]

MergeStep(th) == run[th].pc = "idle" /\ run'[th].pc = "merged"

C11_Step ==
    \A th \in Threads :
       MergeStep(th) =>
          LET A == providers[run'[th].c]
              B == providers[run'[th].other]
          IN  /\ (run'[th].result = Nil) <=> (Conflicts(A, B) = {})
              /\ run'[th].result = Nil => providers'[run'[th].c] = Union(A, B)
              /\ Conflicts(A, B) # {} =>
                    \E t \in Conflicts(A, B) :
                       run'[th].result = FactoryAlreadyProvidedError(Name(t))

\* C11: A.Merge(B) returns nil iff no Type has an entry in both tables with
\* two different factories; on success A's table is its previous table plus
\* B's entries for the Types A lacked; otherwise Merge returns
\* FactoryAlreadyProvidedError with the name of a Type that has different
\* factories in A and B.
C11_MergeOutcome == [][C11_Step]_vars

C12_Step ==
    \A th \in Threads :
       MergeStep(th) =>
          LET c == run'[th].c
              A == providers[c]
              B == providers[run'[th].other]
              order == run'[th].in
              k == run'[th].i
          IN  /\ \A t \in DOMAIN A :
                    t \in DOMAIN providers'[c] /\ providers'[c][t] = A[t]
              /\ providers'[run'[th].other] = B
              /\ \A t \in DOMAIN providers'[c] \ DOMAIN A :
                    t \in DOMAIN B /\ providers'[c][t] = B[t]
              /\ run'[th].result # Nil =>
                    /\ k \in 1..Len(order)
                    /\ order[k] \in DOMAIN A
                    /\ \A j \in k..Len(order) :
                          order[j] \notin DOMAIN A => order[j] \notin DOMAIN providers'[c]
                    /\ \A t \in DOMAIN providers'[c] \ DOMAIN A :
                          \E j \in 1..(k - 1) : order[j] = t

\* C12: for every A.Merge(B), every entry A's table held before the call maps
\* to the same factory afterwards, B's table is unchanged and what A gained
\* are entries of B; when Merge fails, it failed at an entry whose Type A
\* held, and A gained nothing from the entries of B visited from that one on.
C12_MergeFrame == [][C12_Step]_vars

\* C12's case: a Merge of three entries has failed at the second one; the
\* first was copied into A and the third was not.
C12_Witness ==
    /\ run[1].pc = "merged"
    /\ run[1].c = "a"
    /\ run[1].other = "b"
    /\ run[1].result # Nil
    /\ Len(run[1].in) = 3
    /\ run[1].i = 2
    /\ providers["a"][run[1].in[2]] # providers["b"][run[1].in[2]]
    /\ HasProvider("a", run[1].in[1])
    /\ ~HasProvider("a", run[1].in[3])


(***************************************************************************)
(* ErrorSet                                                                *)
(***************************************************************************)
C13_Step ==
    \A th \in Threads :
       (run[th].pc = "es" /\ run'[th].pc = "es" /\ run'[th].op = "Result") =>
          LET added == run[th].in
          IN  /\ run'[th].errors = run[th].errors
              /\ run'[th].in = added
              /\ Len(added) = 0 => run'[th].result = Nil
              /\ Len(added) = 1 => run'[th].result = added[1]
              /\ Len(added) >= 2 =>
                    /\ run'[th].result = [kind |-> "ErrorSet", errors |-> run[th].errors]
                    /\ Len(run[th].errors) = Len(added)
                    /\ \A e \in SomeErrors :
                          Cardinality({ k \in 1..Len(added) : added[k] = e })
                          = Cardinality({ k \in 1..Len(added) : run[th].errors[k] = e })

\* C13: after any sequence of Add calls (and reads), Result() returns nil
\* when no error was added, the added error itself when one was added, and
\* the set, holding every added error, when two or more were; Result()
\* leaves the set as it was.
C13_Result == [][C13_Step]_vars

\* C13's case: Result() has returned the set itself, after two errors were
\* added and read once.
C13_Witness ==
    /\ run[1].pc = "es"
    /\ run[1].op = "Result"
    /\ Len(run[1].in) = 2
    /\ run[1].in[1] # run[1].in[2]
    /\ run[1].errors = Reverse(run[1].in)
    /\ run[1].result = [kind |-> "ErrorSet", errors |-> run[1].errors]

\* C14: every Errors() call returns the errors added so far, the most
\* recently added first, and every Error() call returns their messages in
\* that order joined by "; ".
C14_ReadOrder ==
    \A th \in Threads :
       run[th].pc = "es" =>
          LET newestFirst == Reverse(run[th].in)
          IN  /\ run[th].op = "Errors" => run[th].result.errors = newestFirst
              /\ run[th].op = "Error" =>
                    run[th].result.s =
                       Join([k \in 1..Len(newestFirst) |-> Message(newestFirst[k])], "; ")


(***************************************************************************)
(* LifecycleHooks.Start and Stop                                           *)
(***************************************************************************)
\* The callables of list that a call of Start or Stop has invoked so far
\* (calls), in the order of the invocations: the k-th invoked is the k-th
\* registered, and only the last invoked may have failed.
FailFast(calls, list, ev, on) ==
    /\ Len(calls) <= Len(list)
    /\ \A k \in 1..Len(calls) :
          /\ calls[k] = Event(ev, list[k].by, on, k, calls[k].ok)
          /\ k < Len(calls) => calls[k].ok

AllOk(calls) == \A k \in 1..Len(calls) : calls[k].ok

\* C15: Start invokes the OnStart callables one after the other in the order
\* of the list they were appended to; it goes on to the next only when the
\* last returned nil; when it returns nil it has invoked every one of them
\* once; otherwise it returns the error of the one that failed, the last one
\* it invoked.
C15_StartFailFast ==
    \A th \in Threads :
       LET starts == Restrict(trace[th], {"onStart"})
           list == onStart[run[th].c]
       IN  /\ FailFast(starts, list, "onStart", "start")
           /\ run[th].pc = "starting" =>
                 /\ run[th].hooks = list
                 /\ run[th].h = Len(starts) + 1
                 /\ AllOk(starts)
           /\ run[th].pc = "entry" =>
                 /\ Len(starts) = Len(list)
                 /\ AllOk(starts)
                 /\ run[th].errors = <<>>
           /\ ~AllOk(starts) =>
                 /\ run[th].pc = "done"
                 /\ run[th].errors = <<HookError(list[Len(starts)])>>
                 /\ trace[th][Len(trace[th])] = starts[Len(starts)]

\* C15's case: Start has returned nil after the two registered callables,
\* of two different factories, each ran once.
C15_Witness ==
    /\ run[1].pc = "entry"
    /\ Len(onStart["a"]) = 2
    /\ onStart["a"][1] # onStart["a"][2]
    /\ Len(Restrict(trace[1], {"onStart"})) = 2
    /\ trace[1][Len(trace[1])].ev = "onStart"
    /\ trace[1][Len(trace[1])].k = 2

\* C16: Stop invokes the OnStop callables one after the other in the order of
\* the list they were appended to and goes on to the next only when the last
\* returned nil; it returns the error of the one that failed, leaving the
\* rest of the list alone, and returns nil only when every one of them ran
\* and returned nil.
C16_StopFailFast ==
    \A th \in Threads :
       LET stops == Restrict(trace[th], {"onStop"})
           list == onStop[run[th].c]
           stopped == run[th].pc = "done" /\ Events(th, {"Stop"}) # {}
       IN  /\ FailFast(stops, list, "onStop", "stop")
           /\ run[th].pc = "stopping" =>
                 /\ run[th].hooks = list
                 /\ run[th].h = Len(stops) + 1
                 /\ AllOk(stops)
           /\ ~AllOk(stops) =>
                 /\ stopped
                 /\ run[th].errors[Len(run[th].errors)] = HookError(list[Len(stops)])
                 /\ trace[th][Len(trace[th])] = stops[Len(stops)]
           /\ (stopped /\ AllOk(stops)) =>
                 /\ Len(stops) = Len(list)
                 /\ \A k \in 1..Len(run[th].errors) : run[th].errors[k].kind # "HookError"

\* C16's case: the first of two OnStop callables has failed and Run has
\* returned without the second having run.
C16_Witness ==
    /\ run[1].pc = "done"
    /\ Len(onStop["a"]) = 2
    /\ onStop["a"][1] # onStop["a"][2]
    /\ Len(Restrict(trace[1], {"onStop"})) = 1
    /\ ~trace[1][Len(trace[1])].ok
    /\ run[1].result = HookError(onStop["a"][1])


(***************************************************************************)
(* Provide                                                                 *)
(***************************************************************************)
ProvideStep(th) == run[th].pc = "idle" /\ run'[th].pc = "provided"

\* What the claim expects Provide to answer for a candidate it rejects
\* before the duplicate check, Nil for a candidate it does not.
Rejection(f) ==
    IF f.kind # "func" THEN NotAFunctionError
    ELSE IF Len(f.outs) = 0 \/ Len(f.outs) > 2
         THEN InvalidFactoryReturnError(Len(f.outs))
    ELSE IF Len(f.outs) = 2 /\ f.outs[2] # "error" /\ f.outs[2] # "*MyError"
         THEN UnexpectedReturnTypeError(f.outs[2])
    ELSE Nil

C17_Step ==
    \A th \in Threads :
       (ProvideStep(th) /\ Len(run'[th].in) > 0) =>
          LET f == run'[th].in[1]
              c == run'[th].c
          IN  /\ Rejection(f) # Nil =>
                    /\ run'[th].result = Rejection(f)
                    /\ providers'[c] = providers[c]
              /\ (Rejection(f) = Nil /\ f.outs[1] \notin DOMAIN providers[c]) =>
                    /\ f.outs[1] \in DOMAIN providers'[c]
                    /\ providers'[c][f.outs[1]] = f
                    /\ \A t \in DOMAIN providers'[c] : providers'[c][t] = f => t = f.outs[1]

\* C17: a candidate that is not a function is rejected with
\* NotAFunctionError, a function of 0 or more than 2 results with
\* InvalidFactoryReturnError carrying the count, a function of 2 results
\* whose second is not an error with UnexpectedReturnTypeError naming it,
\* whether or not its first result already has a provider; the table is
\* left as it was; a function that passes and whose first result has no
\* provider is entered under that Type.
C17_ProvideValidation == [][C17_Step]_vars

\* C17's case: Provide has rejected func() (int, string) for its second
\* result although int has a provider.
C17_Witness ==
    /\ run[1].pc = "provided"
    /\ HasProvider("a", "int")
    /\ Len(run[1].in) = 1
    /\ run[1].in[1].kind = "func"
    /\ run[1].in[1].outs = <<"int", "string">>
    /\ run[1].result = UnexpectedReturnTypeError("string")


\* The positions of fs at which a Provide call on table T finds an invalid
\* factory or one whose Type T, or an earlier valid factory of fs, provides.
Failing(T, fs) ==
    { k \in 1..Len(fs) :
         \/ Rejection(fs[k]) # Nil
         \/ fs[k].outs[1] \in DOMAIN T
         \/ \E j \in 1..(k - 1) :
               Rejection(fs[j]) = Nil /\ fs[j].outs[1] = fs[k].outs[1] }

First(S) == CHOOSE k \in S : \A j \in S : k <= j

C18_Step ==
    \A th \in Threads :
       ProvideStep(th) =>
          LET fs == run'[th].in
              T == providers[run'[th].c]
              After == providers'[run'[th].c]
              n == IF Failing(T, fs) = {} THEN Len(fs) ELSE First(Failing(T, fs)) - 1
          IN  /\ DOMAIN After = DOMAIN T \cup { fs[j].outs[1] : j \in 1..n }
              /\ \A t \in DOMAIN T : After[t] = T[t]
              /\ \A j \in 1..n : After[fs[j].outs[1]] = fs[j]
              /\ (run'[th].result = Nil) <=> (Failing(T, fs) = {})
              /\ Failing(T, fs) # {} =>
                    LET f == fs[n + 1]
                    IN  run'[th].result =
                           IF Rejection(f) # Nil THEN Rejection(f)
                           ELSE FactoryAlreadyProvidedError(Name(f.outs[1]))

\* C18: Provide(f1, ..., fn) returns at the first factory, from the left,
\* that is invalid or whose Type has a provider already (one of an earlier
\* factory of the same call included), with the error of that factory; the
\* factories before it are in the table, it and the ones after it are not,
\* and the entries the table had are as they were.
C18_BatchProvide == [][C18_Step]_vars

\* C18's case: of three factories the first is registered, the second is a
\* duplicate of the first and the third, valid and new, is not registered.
C18_Witness ==
    /\ run[1].pc = "provided"
    /\ Len(run[1].in) = 3
    /\ run[1].in[1].ptr = "newInt"
    /\ run[1].in[2].ptr = "intFromA"
    /\ run[1].in[3].ptr = "newA"
    /\ providers["a"] = Put(EmptyMap, "int", run[1].in[1])
    /\ run[1].result = FactoryAlreadyProvidedError("int")


(***************************************************************************)
(* Run: validation and wiring                                              *)
(***************************************************************************)
RunBeginStep(th) == run[th].pc = "idle" /\ run'[th].pc \in {"deps", "done"}

\* What the claim expects Run to answer for an entry value it rejects, Nil
\* for one that passes: error and *MyError satisfy the error contract.
EntryRejection(fn) ==
    IF fn.kind # "func" THEN NotAFunctionError
    ELSE IF Len(fn.outs) > 1 THEN InvalidFactoryReturnError(Len(fn.outs))
    ELSE IF Len(fn.outs) = 1 /\ fn.outs[1] \notin {"error", "*MyError"}
         THEN UnexpectedReturnTypeError(Name(fn.outs[1]))
    ELSE Nil

C19_Step ==
    \A th \in Threads :
       RunBeginStep(th) =>
          /\ EntryRejection(run'[th].fn) # Nil =>
                /\ run'[th].pc = "done"
                /\ run'[th].result = EntryRejection(run'[th].fn)
                /\ trace'[th] = <<>>
                /\ frames'[th] = <<>>
                /\ UNCHANGED <<providers, instances, onStart, onStop, okCalls>>
          /\ EntryRejection(run'[th].fn) = Nil => run'[th].pc = "deps"

\* C19: Run rejects a value that is not a function with NotAFunctionError, a
\* function of more than one result with InvalidFactoryReturnError carrying
\* the count, a function whose one result is not an error with
\* UnexpectedReturnTypeError, and then invokes nothing and changes neither
\* the cache nor the hook lists; a function of no result, or of one result
\* that satisfies the error contract, passes validation.
C19_RunValidation == [][C19_Step]_vars

\* The value v was produced by the factory container c has for v's Type,
\* called with the values so produced for its parameters, in declared order.
RECURSIVE Wired(_, _)
Wired(c, v) ==
    /\ v # Nil
    /\ HasProvider(c, v.t)
    /\ LET f == providers[c][v.t]
       IN  /\ v.by = f.ptr
           /\ v.c = c
           /\ Len(v.args) = Len(f.ins)
           /\ \A j \in 1..Len(f.ins) :
                 IF f.ins[j] = HooksT THEN v.args[j] = HooksOf(c)
                 ELSE v.args[j].t = f.ins[j] /\ Wired(c, v.args[j])

\* C20: when the parameters of the entry function have resolved and Start
\* has returned nil, the entry function is invoked once, with, at each
\* position, the value the factory registered for that parameter's Type
\* produced, every factory of the chain having been called with the values
\* produced for its own parameters in declared order.
C20_ArgumentWiring ==
    \A th \in Threads :
       LET r == run[th]
           entered == Events(th, {"entry"}) # {}
       IN  /\ (r.pc \in {"stop", "stopping"}
                  \/ (r.pc = "done" /\ Events(th, {"Start"}) # {}
                         /\ AllOk(Restrict(trace[th], {"onStart"}))))
                 => Cardinality(Events(th, {"entry"})) = 1
           /\ (r.pc = "entry" \/ entered) =>
                 /\ Len(r.deps) = Len(r.fn.ins)
                 /\ \A j \in 1..Len(r.fn.ins) :
                       /\ r.deps[j].t = r.fn.ins[j]
                       /\ Wired(r.c, r.deps[j])
                       /\ r.deps[j] = instances[r.c][r.fn.ins[j]]

\* C20's case: main(*ServiceB, int) has been invoked with the *ServiceB that
\* bFromA built from the *ServiceA that newA built from the int of newInt,
\* and with that same int.
C20_Witness ==
    /\ run[1].pc = "done"
    /\ Events(1, {"entry"}) # {}
    /\ run[1].fn.ins = <<"*ServiceB", "int">>
    /\ run[1].deps[1].by = "bFromA"
    /\ run[1].deps[1].args[1].by = "newA"
    /\ run[1].deps[1].args[1].args[1].by = "newInt"
    /\ run[1].deps[1].args[2] = run[1].deps[2]
    /\ run[1].deps[1].args[1].args[1] = run[1].deps[2]


\* C21: when two or more errors were added to an ErrorSet, Error() of the
\* error its Result() returns, the set itself, is the messages of the added
\* errors in the order they were added, joined by "; ".
C21_MessageOrder ==
    \A th \in Threads :
       (run[th].pc = "es" /\ run[th].op = "Error" /\ Len(run[th].in) >= 2) =>
          run[th].result.s =
             Join([k \in 1..Len(run[th].in) |-> Message(run[th].in[k])], "; ")

\* th makes the write of line 85 in this step.
StoreStep(th) ==
    /\ frames[th] # <<>>
    /\ Top(th).st = "store"
    /\ frames'[th] # <<>>
    /\ frames'[th][Len(frames'[th])].st = "ret"

\* C22: two threads that resolve one uncached Type on one Container can both
\* miss the cache and both invoke the factory; each gets the value of its own
\* invocation, and each write of the cache replaces what is there, so the
\* cache ends with the value of the second writer.
C22_SecondWriteWins ==
    [][\A th \in Threads :
          StoreStep(th) =>
             /\ okCalls[run[th].c][Top(th).t] <= Cardinality(Threads)
             /\ instances'[run[th].c][Top(th).t] = Top(th).val
             /\ frames'[th][Len(frames'[th])].val = Top(th).val]_vars

\* Both Runs have reached the entry function with an int of their own, from
\* two invocations of the factory; the cache holds the one of thread 2.
C22_Witness ==
    /\ run[1].pc = "entry" /\ run[2].pc = "entry"
    /\ run[1].fn.ins = <<"int">> /\ run[2].fn.ins = <<"int">>
    /\ run[1].deps[1] # run[2].deps[1]
    /\ run[1].deps[1].n = 1 /\ run[2].deps[1].n = 2
    /\ okCalls["a"]["int"] = 2
    /\ instances["a"]["int"] = run[2].deps[1]

\* C23: a Type's entry of the Instance Cache never changes once it is there,
\* under any interleaving.
C23_WriteOnce ==
    [][\A c \in Containers : \A t \in DOMAIN instances[c] :
          t \in DOMAIN instances'[c] /\ instances'[c][t] = instances[c][t]]_vars

\* The thread that takes this step.
Stepping(th) == run'[th] # run[th] \/ frames'[th] # frames[th]

\* C24: every write of the Provider Table or the Instance Cache of a Container
\* is made by a thread that holds the Container's lock exclusively: no other
\* thread is inside Lock or RLock.
C24_LockDiscipline ==
    [][\A c \in Containers :
          (instances'[c] # instances[c] \/ providers'[c] # providers[c]) =>
             \E th \in Threads :
                Stepping(th) /\ locks[c].w = th /\ locks[c].r = {}]_vars

\* User code runs on th: the body of a factory, a hook callable or the entry
\* function.
UserCode(th) ==
    \/ /\ frames[th] # <<>>
       /\ Top(th).st = "args"
       /\ Top(th).i > Len(Top(th).provider.ins)
    \/ run[th].pc \in {"starting", "stopping"} /\ run[th].h <= Len(run[th].hooks)
    \/ run[th].pc = "entry"

\* th holds c.mu, for writing or for reading, or c.hooks.mu of a Container.
Holds(th) ==
    \E c \in Containers : locks[c].w = th \/ th \in locks[c].r \/ locks[c].h = th

\* C25: a thread on which a factory, a hook callable or the entry function
\* runs holds neither the Container's lock nor the lock of its Hooks, and a
\* thread that holds one of them releases it by its next step (unless the
\* process ends).
C25_NoLockAcrossUserCode ==
    [][\A th \in Threads :
          /\ UserCode(th)' => ~Holds(th)'
          /\ (Holds(th) /\ Stepping(th) /\ run'[th].pc # "fatal") => ~Holds(th)']_vars

\* Thread 1 is in the body of newIntHooks, between its OnStart and its OnStop
\* call, while thread 2 is inside Provide with the Container's lock.
C25_Witness ==
    /\ frames[1] # <<>>
    /\ Top(1).st = "args"
    /\ Top(1).provider.ptr = "newIntHooks"
    /\ Top(1).i = Len(Top(1).provider.ins) + 2
    /\ Len(onStart["a"]) = 1
    /\ locks["a"].w = 2
    /\ ~Holds(1)

\* The Types for which c has invoked a factory that returned a value.
Built(c) == { t \in Types : okCalls[c][t] >= 1 }

\* C26: with every operation completed, the Instance Cache of a Container
\* holds a value for a Type iff the Container has invoked the Type's factory
\* and the factory returned a value; only the write that follows such an
\* invocation changes a cache, never Provide, Merge, a failed invocation or
\* the rest of Run.
C26_CacheFactoryCorrespondence ==
    [][/\ run'[1].pc = "idle" =>
             \A c \in Containers : DOMAIN instances'[c] = Built(c)'
       /\ instances' # instances =>
             /\ StoreStep(1)
             /\ okCalls[run[1].c][Top(1).t] >= 1
             /\ Top(1).val.by = providers[run[1].c][Top(1).t].ptr]_vars

\* Container a has merged b's newIntHooks and newA; a Run on a had the
\* factory of int fail, a later one built int and *ServiceA: a's cache holds
\* both, b's cache, which invoked nothing, is empty.
C26_Witness ==
    /\ run[1].pc = "idle"
    /\ DOMAIN instances["a"] = {"int", "*ServiceA"}
    /\ instances["a"]["int"].by = "newIntHooks"
    /\ Len(onStart["a"]) = 2
    /\ DOMAIN providers["b"] = {"int", "*ServiceA"}
    /\ instances["b"] = EmptyMap

\* No Type occurs twice in the sequence s.
NoDuplicate(s) == \A j, k \in 1..Len(s) : s[j] = s[k] => j = k

\* The top-level resolve call of th's Run has returned, a value or an error.
Resolved(th) ==
    /\ Len(frames[th]) = 1
    /\ frames[th][1].st = "ret"
    /\ (frames[th][1].val = Nil) # (frames[th][1].err = Nil)

\* C27: whatever the Provider Table, cycles and self-loops included, no
\* resolution stack holds a Type twice, the depth of the recursion is at most
\* the number of registered Types plus one, and every top-level resolve call
\* that Run starts returns a value or an error.
C27_ResolutionTerminates ==
    /\ [](\A k \in 1..Len(frames[1]) :
             /\ NoDuplicate(frames[1][k].stack)
             /\ Len(frames[1][k].stack) = k - 1)
    /\ [](Len(frames[1]) <= Cardinality(DOMAIN providers[run[1].c]) + 1)
    /\ (frames[1] # <<>>) ~> Resolved(1)

\* With selfA registered, the call for *ServiceA made by the call for
\* *ServiceA has returned the cycle error: the depth is two, one more than
\* the number of registered Types.
C27_Witness ==
    /\ DOMAIN providers["a"] = {"*ServiceA"}
    /\ providers["a"]["*ServiceA"].ptr = "selfA"
    /\ Len(frames[1]) = 2
    /\ Top(1).st = "ret"
    /\ Top(1).err = CyclicDependencyError(Name("*ServiceA"))

\* The call frames[th][k] has looked up its provider: it is in the loop over
\* the parameters or past it.
InLoop(th, k) == frames[th][k].provider.kind = "func"

\* The call frames[th][k] has returned the error of its parameter i.
ParameterFailed(th, k) ==
    /\ InLoop(th, k)
    /\ frames[th][k].st = "ret"
    /\ frames[th][k].err # Nil
    /\ frames[th][k].i <= Len(frames[th][k].provider.ins)

\* C28: resolve fills the parameters of a factory in declared order, one
\* sub-resolution at a time; when the resolution of parameter i fails, no
\* later parameter is resolved, no factory is invoked any more, the factory
\* itself included, and the call returns that parameter's error as it is.
C28_LeftToRightFirstFailure ==
    /\ \A k \in 1..Len(frames[1]) :
          InLoop(1, k) =>
             LET fr == frames[1][k]
                 f == fr.provider
             IN  /\ \A j \in 1..Len(f.ins) :
                       /\ j < fr.i => fr.deps[j] # Nil
                       /\ j >= fr.i => fr.deps[j] = Nil
                 /\ k < Len(frames[1]) =>
                       /\ fr.st = "args"
                       /\ fr.i <= Len(f.ins)
                       /\ frames[1][k + 1].t = f.ins[fr.i]
                 /\ ParameterFailed(1, k) =>
                       /\ fr.err = raised[1].err
                       /\ fr.val = Nil
                       /\ f.ptr \notin Invoked(1)
    /\ raised[1].err # Nil => Len(trace[1]) = raised[1].n

\* bFromA(*ServiceA, int): the factory of int failed while *ServiceA, the
\* first parameter, was resolved; the call for *ServiceB has returned that
\* error, with no parameter filled and one factory invocation in all.
C28_Witness ==
    /\ Len(frames[1]) = 1
    /\ ParameterFailed(1, 1)
    /\ Top(1).provider.ptr = "bFromA"
    /\ Top(1).i = 1
    /\ HasProvider("a", "int")
    /\ providers["a"]["int"].ptr = "newIntHooks"
    /\ Top(1).err = FactoryError(providers["a"]["int"])
    /\ Invoked(1) = {"newIntHooks"}
    /\ Len(trace[1]) = 1

\* The Types the factory of t in c's table takes and resolve looks up.
Needs(c, t) ==
    IF HasProvider(c, t)
    THEN { providers[c][t].ins[k] :
             k \in { j \in 1..Len(providers[c][t].ins) :
                       ~ImplementsHooks(providers[c][t].ins[j]) } }
    ELSE {}

\* The Types reached from those of S along at most n edges of c's table.
RECURSIVE ReachFrom(_, _, _)
ReachFrom(c, S, n) ==
    IF n = 0 THEN S
    ELSE ReachFrom(c, S \cup UNION { Needs(c, u) : u \in S }, n - 1)

\* The Types t depends on in c's table, directly or not.
DependsOn(c, t) == ReachFrom(c, Needs(c, t), Cardinality(Types))

\* C29: every call of a resolution started by Run sees on its stack the
\* Types of the calls around it, whatever array the slices share, and
\* CyclicDependencyError is returned only for a Type that depends on itself
\* in the Provider Table and that is the requested Type or one it depends on.
C29_NoFalseCycle ==
    /\ \A k \in 1..Len(frames[1]) :
          frames[1][k].stack = [j \in 1..(k - 1) |-> frames[1][j].t]
    /\ \A k \in 1..Len(frames[1]) :
          frames[1][k].err.kind = "CyclicDependencyError" =>
             /\ raised[1].t \in DependsOn(run[1].c, raised[1].t)
             /\ raised[1].t \in {frames[1][1].t} \cup DependsOn(run[1].c, frames[1][1].t)
    /\ (run[1].pc = "done" /\ run[1].result.kind = "CyclicDependencyError") =>
          /\ raised[1].t \in DependsOn(run[1].c, raised[1].t)
          /\ \E k \in 1..Len(run[1].fn.ins) :
                raised[1].t \in {run[1].fn.ins[k]}
                                \cup DependsOn(run[1].c, run[1].fn.ins[k])

\* The diamond below T6, eight calls deep: *ServiceA, already built as the
\* first parameter of newT6, is resolved as the first parameter of bFromA.
\* Its stack is a slice of the array the call for T6 got, and *ServiceB is
\* where *ServiceA was while int was resolved; the call returns the instance.
C29_Witness ==
    /\ Len(frames[1]) = 8
    /\ Top(1).t = "*ServiceA"
    /\ Top(1).stack = <<"T1", "T2", "T3", "T4", "T5", "T6", "*ServiceB">>
    /\ Top(1).arr = frames[1][7].arr
    /\ Top(1).cap = 8
    /\ Top(1).st = "ret"
    /\ Top(1).err = Nil
    /\ Top(1).val = instances["a"]["*ServiceA"]
    /\ instances["a"]["*ServiceA"].args[1].by = "newInt"

\* The sequence s is the beginning of the sequence u.
IsPrefix(s, u) == Len(s) <= Len(u) /\ \A k \in 1..Len(s) : s[k] = u[k]

\* The events evs of th's Run are the callables of list, in order, each
\* called once and returning nil.
RanAll(th, evs, list) ==
    LET ran == Restrict(trace[th], evs)
    IN  /\ Len(ran) = Len(list)
        /\ \A k \in 1..Len(ran) : ran[k].by = list[k].by /\ ran[k].k = k /\ ran[k].ok

\* The callables of list that the factory with code pointer ptr registered.
RegisteredBy(list, ptr) == { k \in 1..Len(list) : list[k].by = ptr }

\* C30: the OnStart and OnStop lists of a Container only grow at the end. Start
\* and Stop range over the whole list as it is when they are called, the
\* callables of earlier Runs included, and run it in order up to the first
\* failure: all of it when none fails.  A list grows only while a factory
\* of a Type with no cached instance is invoked, so a factory registers
\* nothing more once its instance is cached.
C30_HooksAccumulate ==
    [][/\ \A c \in Containers :
             /\ IsPrefix(onStart[c], onStart'[c])
             /\ IsPrefix(onStop[c], onStop'[c])
             /\ (onStart'[c] # onStart[c] \/ onStop'[c] # onStop[c]) =>
                   /\ frames[1] # <<>>
                   /\ Top(1).st = "args"
                   /\ run[1].c = c
                   /\ ~HasInstance(c, Top(1).t)
                   /\ \A k \in (Len(onStart[c]) + 1)..Len(onStart'[c]) :
                         onStart'[c][k] = Hook(Top(1).provider, "start")
                   /\ \A k \in (Len(onStop[c]) + 1)..Len(onStop'[c]) :
                         onStop'[c][k] = Hook(Top(1).provider, "stop")
       /\ (run[1].pc = "deps" /\ run'[1].pc = "starting") =>
             run'[1].hooks = onStart[run[1].c]
       /\ (run[1].pc = "stop" /\ run'[1].pc = "stopping") =>
             run'[1].hooks = onStop[run[1].c]
       /\ (run[1].pc = "starting" /\ run'[1].pc = "entry") =>
             RanAll(1, {"onStart"}, onStart[run[1].c])'
       /\ (run[1].pc = "stopping" /\ run'[1].pc = "done"
             /\ (\A k \in Events(1, {"onStop"}) : trace[1][k].ok)') =>
             RanAll(1, {"onStop"}, onStop[run[1].c])']_vars

\* A Run that invoked no factory, its int being cached, has run the OnStart
\* callable that newIntHooks registered during an earlier Run.
C30_Witness ==
    /\ run[1].pc = "entry"
    /\ run[1].fn.ins = <<"int">>
    /\ Invoked(1) = {}
    /\ run[1].deps[1] = instances["a"]["int"]
    /\ onStart["a"] = <<Hook(providers["a"]["int"], "start")>>
    /\ RanAll(1, {"onStart"}, onStart["a"])
    /\ providers["a"]["int"].ptr = "newIntHooks"

\* C30 as stated: a factory whose instance is cached has registered its
\* hooks once, and a Run that has called Start has, when it ends, run every
\* callable of the OnStart list and every callable of the OnStop list.
C30_EveryCallableOnce ==
    /\ \A c \in Containers : \A t \in DOMAIN instances[c] :
          /\ Cardinality(RegisteredBy(onStart[c], providers[c][t].ptr))
                <= providers[c][t].starts
          /\ Cardinality(RegisteredBy(onStop[c], providers[c][t].ptr))
                <= providers[c][t].stops
    /\ (run[1].pc = "done" /\ Events(1, {"Start"}) # {}) =>
          /\ Len(Restrict(trace[1], {"onStart"})) = Len(onStart[run[1].c])
          /\ Len(Restrict(trace[1], {"onStop"})) = Len(onStop[run[1].c])

\* The instance val was built by Container c itself: by an invocation c made,
\* with c's own Hooks for a Hooks parameter and c's own instances for the
\* others.
RECURSIVE BuiltBy(_, _)
BuiltBy(val, c) ==
    /\ val.c = c
    /\ \A k \in 1..Len(val.args) :
          IF ImplementsHooks(val.args[k].t) THEN val.args[k] = HooksOf(c)
          ELSE BuiltBy(val.args[k], c)

\* C31: A.Merge(B), whether it returns nil or an error, changes nothing but
\* A's Provider Table: the caches and hook lists of both and B's table stay
\* as they are.  What a Container caches it has built itself, once, with
\* its own Hooks, also for a Type another Container has cached; the hooks go
\* to the lists of the Container that runs.
C31_MergeProvidersOnly ==
    [][/\ MergeStep(1) =>
             /\ instances' = instances
             /\ onStart' = onStart
             /\ onStop' = onStop
             /\ okCalls' = okCalls
             /\ \A c \in Containers \ {run'[1].c} : providers'[c] = providers[c]
       /\ \A c \in Containers : \A t \in DOMAIN instances'[c] :
             /\ BuiltBy(instances'[c][t], c)
             /\ okCalls'[c][t] = 1
       /\ \A c \in Containers :
             (instances'[c] # instances[c] \/ onStart'[c] # onStart[c]
                \/ onStop'[c] # onStop[c]) =>
                (frames[1] # <<>> /\ run[1].c = c)]_vars

\* a.Merge(b) has returned nil with int in b's table.  b had built and
\* cached its int with newIntHooks, and a, whose table holds the same factory,
\* had invoked it once more: each cache holds an instance of its own, built
\* with the Container's own Hooks, and each OnStart list one callable.
C31_Witness ==
    /\ run[1].pc = "merged"
    /\ run[1].c = "a"
    /\ run[1].other = "b"
    /\ run[1].result = Nil
    /\ run[1].in = <<"int">>
    /\ HasInstance("a", "int")
    /\ HasInstance("b", "int")
    /\ providers["a"]["int"] = providers["b"]["int"]
    /\ providers["a"]["int"].ptr = "newIntHooks"
    /\ instances["a"]["int"] # instances["b"]["int"]
    /\ instances["a"]["int"].args = <<HooksOf("a")>>
    /\ instances["b"]["int"].args = <<HooksOf("b")>>
    /\ okCalls["a"]["int"] = 1
    /\ okCalls["b"]["int"] = 1
    /\ Len(onStart["a"]) = 1
    /\ Len(onStart["b"]) = 1

\* The place in list of the last callable the factory at ptr registered.
LastBy(list, ptr) ==
    CHOOSE k \in RegisteredBy(list, ptr) : \A j \in RegisteredBy(list, ptr) : j <= k

\* The pairs <<f, g>> of factories of c's table where g takes the Type f
\* returns, both register an OnStart and an OnStop callable, and th's
\* current Run has invoked both.
RegisteringPairs(th, c) ==
    { p \in (Invoked(th) \X Invoked(th)) :
        \E t, u \in DOMAIN providers[c] :
           /\ providers[c][u].ptr = p[1]
           /\ providers[c][t].ptr = p[2]
           /\ u \in Needs(c, t)
           /\ providers[c][u].starts > 0 /\ providers[c][u].stops > 0
           /\ providers[c][t].starts > 0 /\ providers[c][t].stops > 0 }

\* In th's Run the callable at place j of a list, if run, ran before the one
\* at place k.
RanBefore(th, ev, j, k) ==
    \A x, y \in Events(th, {ev}) :
       (trace[th][x].k = j /\ trace[th][y].k = k) => x < y

\* C32: when the factory g takes what the factory f returns, both register
\* an OnStart and an OnStop callable and one Run invokes both, f is invoked
\* first, f's callables stand before g's in both lists, and f's OnStart runs
\* before g's OnStart and f's OnStop before g's OnStop.
C32_HookOrder ==
    \A p \in RegisteringPairs(1, run[1].c) :
       LET c == run[1].c
           f == p[1]
           g == p[2]
       IN  /\ \A x, y \in Events(1, {"factory"}) :
                 (trace[1][x].by = f /\ trace[1][y].by = g) => x < y
           /\ RegisteredBy(onStart[c], f) # {} /\ RegisteredBy(onStart[c], g) # {}
           /\ RegisteredBy(onStop[c], f) # {} /\ RegisteredBy(onStop[c], g) # {}
           /\ LastBy(onStart[c], f) < LastBy(onStart[c], g)
           /\ LastBy(onStop[c], f) < LastBy(onStop[c], g)
           /\ RanBefore(1, "onStart", LastBy(onStart[c], f), LastBy(onStart[c], g))
           /\ RanBefore(1, "onStop", LastBy(onStop[c], f), LastBy(onStop[c], g))

\* newB(int, Hooks) and newIntHooks: a Run has ended that invoked newIntHooks,
\* then newB, ran the OnStart callable of newIntHooks, then that of newB, the
\* entry function, and the OnStop callable of newIntHooks, then that of newB.
C32_Witness ==
    /\ run[1].pc = "done"
    /\ run[1].result = Nil
    /\ <<"newIntHooks", "newB">> \in RegisteringPairs(1, "a")
    /\ [k \in 1..Len(trace[1]) |-> <<trace[1][k].ev, trace[1][k].by>>] =
          << <<"factory", "newIntHooks">>, <<"factory", "newB">>,
             <<"Start", "hooks">>,
             <<"onStart", "newIntHooks">>, <<"onStart", "newB">>,
             <<"entry", "main">>,
             <<"Stop", "hooks">>,
             <<"onStop", "newIntHooks">>, <<"onStop", "newB">> >>

====
